---- MODULE Spec2Model ----
(***************************************************************************)
(* Model of the Trade Republic PDF ingestion (tools/investos/ingest.py).   *)
(*                                                                         *)
(* A document is a sequence of lines; a line is a sequence of tokens       *)
(* separated by blanks.  A token is either an opaque word (a string, for   *)
(* which the regular expressions of the parser are decided by membership   *)
(* in the word sets below) or a spelled token (a sequence of one-character *)
(* strings, on which number, date and ISIN shapes are computed character   *)
(* by character).  Monetary amounts are fixed-point integers with          *)
(* Scale = 10^6 units per 1.0 (Python floats in the source).               *)
(***************************************************************************)
EXTENDS Integers, Sequences, FiniteSets, TLC

VARIABLES
    doc,            \* the extracted text, as a sequence of line identifiers
    entry,          \* the method called: "parse" or "parse_holdings_table"
    pc,             \* position of the call
    pos,            \* index into search_lines of the next line to scan
    holdings,       \* parse_holdings_table: holdings
    processed,      \* parse_holdings_table: processed_isins
    warnings,       \* self.warnings
    isin_candidates,\* self.isin_candidates
    valid_isins,    \* self.valid_isins
    warned_no_date, \* hasattr(self, '_warned_no_date')
    cash,           \* the 'cash' field of the result of parse
    call,           \* the number of the call in progress: 1 or 2
    first_result,   \* the result of the first call as it was returned, <<>> before
    shared,         \* the second call runs on the parser instance of the first
    arg,            \* the argument of a call of _parse_number or is_valid_isin
    ret,            \* its return value, <<>> before the return
    account_name,   \* create_canonical_snapshot: account_name
    snapshot,       \* create_canonical_snapshot: the snapshot returned, <<>> before
    request,        \* ingest_pdf: pdf_path, export_csv and the clock, <<>> outside
    result,         \* ingest_pdf: the result dict, <<>> outside ingest_pdf
    files           \* the files written so far, in the order of their writing

\* the variables of one call of parse or parse_holdings_table
parserVars == <<doc, entry, pc, pos, holdings, processed, warnings,
                isin_candidates, valid_isins, warned_no_date, cash>>
\* the variables of a second call
callVars == <<call, first_result, shared>>
\* the variables of a call of a module-level or helper function
fnVars == <<arg, ret>>
\* the variables of create_canonical_snapshot
snapVars == <<account_name, snapshot>>

\* the variables of ingest_pdf
ingestVars == <<request, result, files>>

vars == <<parserVars, callVars, fnVars, snapVars, ingestVars>>

-----------------------------------------------------------------------------
(* Bounds of the model *)

\* longest document of the free-form specification Spec
MaxLines == 3
\* most holding rows of a document of the row-structured specification SpecRows
MaxRows == 2
\* the lines of a document with a holdings section, at most
MaxSection == 5
\* longest token handed to _parse_number in the specification SpecNumber
MaxChars == 5

-----------------------------------------------------------------------------
(* Characters *)

Digits == {"0", "1", "2", "3", "4", "5", "6", "7", "8", "9"}

UpperLetters ==
    {"A", "B", "C", "D", "E", "F", "G", "H", "I", "J", "K", "L", "M",
     "N", "O", "P", "Q", "R", "S", "T", "U", "V", "W", "X", "Y", "Z"}

\* int(digit_char)
DigitValue ==
    "0" :> 0 @@ "1" :> 1 @@ "2" :> 2 @@ "3" :> 3 @@ "4" :> 4 @@
    "5" :> 5 @@ "6" :> 6 @@ "7" :> 7 @@ "8" :> 8 @@ "9" :> 9

\* ord(char) - ord('A') + 10
LetterValue ==
    "A" :> 10 @@ "B" :> 11 @@ "C" :> 12 @@ "D" :> 13 @@ "E" :> 14 @@
    "F" :> 15 @@ "G" :> 16 @@ "H" :> 17 @@ "I" :> 18 @@ "J" :> 19 @@
    "K" :> 20 @@ "L" :> 21 @@ "M" :> 22 @@ "N" :> 23 @@ "O" :> 24 @@
    "P" :> 25 @@ "Q" :> 26 @@ "R" :> 27 @@ "S" :> 28 @@ "T" :> 29 @@
    "U" :> 30 @@ "V" :> 31 @@ "W" :> 32 @@ "X" :> 33 @@ "Y" :> 34 @@
    "Z" :> 35

\* the absent number (Python None); every number of the model is >= 0
None == -1

-----------------------------------------------------------------------------
(* is_valid_isin *)

\* digit_string: digits pass through, a letter becomes its two digits
RECURSIVE DigitString(_)
DigitString(cs) ==
    IF cs = <<>> THEN <<>>
    ELSE LET c == Head(cs)
         IN  (IF c \in Digits
              THEN <<DigitValue[c]>>
              ELSE <<LetterValue[c] \div 10, (LetterValue[c] % 10)>>)
             \o DigitString(Tail(cs))

\* a sum that adds a doubled digit as it is, without folding 14 into 1 + 4
RECURSIVE UnfoldedTotal(_, _)
UnfoldedTotal(ds, i) ==
    IF i >= Len(ds) THEN 0
    ELSE (IF (i % 2) = 1 THEN ds[Len(ds) - i] * 2 ELSE ds[Len(ds) - i])
         + UnfoldedTotal(ds, i + 1)

\* the Luhn sum over reversed(digit_string): i is the 0-based index from the right
RECURSIVE LuhnTotal(_, _)
LuhnTotal(ds, i) ==
    IF i >= Len(ds) THEN 0
    ELSE LET digit == ds[Len(ds) - i]
             doubled == digit * 2
             term == IF (i % 2) = 1
                     THEN (IF doubled > 9
                           THEN (doubled \div 10) + (doubled % 10)
                           ELSE doubled)
                     ELSE digit
         IN  term + LuhnTotal(ds, i + 1)

\* the value is_valid_isin returns when it returns
is_valid_isin(isin) ==
    /\ Len(isin) = 12
    /\ isin[1] \in UpperLetters /\ isin[2] \in UpperLetters
    /\ isin[12] \in Digits
    /\ \A k \in 3..11 : isin[k] \in Digits \cup UpperLetters
    /\ (LuhnTotal(DigitString(isin), 0) % 10) = 0

-----------------------------------------------------------------------------
(* _parse_number *)

\* the fixed-point unit: 1.0 is Scale
Scale == 1000000
\* decimal places kept by the fixed-point representation
ScaleDigits == 6

RECURSIVE CountChar(_, _)
CountChar(cs, ch) ==
    IF cs = <<>> THEN 0
    ELSE (IF Head(cs) = ch THEN 1 ELSE 0) + CountChar(Tail(cs), ch)

\* str.rfind: the last position of ch, 0 when absent
RECURSIVE RFind(_, _)
RFind(cs, ch) ==
    IF cs = <<>> THEN 0
    ELSE IF cs[Len(cs)] = ch THEN Len(cs)
    ELSE RFind(SubSeq(cs, 1, Len(cs) - 1), ch)

\* str.replace(old, new, count) for one-character old; new is a sequence
RECURSIVE ReplaceChar(_, _, _, _)
ReplaceChar(cs, old, new, count) ==
    IF cs = <<>> \/ count = 0 THEN cs
    ELSE IF Head(cs) = old
         THEN new \o ReplaceChar(Tail(cs), old, new, count - 1)
         ELSE <<Head(cs)>> \o ReplaceChar(Tail(cs), old, new, count)

ReplaceAll(cs, old, new) == ReplaceChar(cs, old, new, Len(cs))

\* the value of a run of digits, most significant first
RECURSIVE DigitsValue(_)
DigitsValue(cs) ==
    IF cs = <<>> THEN 0
    ELSE DigitsValue(SubSeq(cs, 1, Len(cs) - 1)) * 10 + DigitValue[cs[Len(cs)]]

\* a fraction's digits as fixed-point units, cut after ScaleDigits places
RECURSIVE FractionValue(_, _)
FractionValue(cs, places) ==
    IF places = 0 THEN 0
    ELSE (IF cs = <<>> THEN 0 ELSE DigitValue[Head(cs)]) * (10 ^ (places - 1))
         + FractionValue(IF cs = <<>> THEN <<>> ELSE Tail(cs), places - 1)

\* the exception of float() on a string that is no number
ValueError == -2

\* str.strip(): without the blanks and line breaks at both ends
RECURSIVE Strip(_)
Strip(cs) ==
    IF cs = <<>> THEN cs
    ELSE IF Head(cs) \in {" ", "\n"} THEN Strip(Tail(cs))
    ELSE IF cs[Len(cs)] \in {" ", "\n"} THEN Strip(SubSeq(cs, 1, Len(cs) - 1))
    ELSE cs

\* float(num_str) for a string of digits, dots, commas, blanks, line breaks
\* and symbols that are no part of a number; float() itself drops the blanks
\* and line breaks at both ends
FloatOf(cs) ==
    LET dot == RFind(cs, ".")
        whole == IF dot = 0 THEN cs ELSE SubSeq(cs, 1, dot - 1)
        frac == IF dot = 0 THEN <<>> ELSE SubSeq(cs, dot + 1, Len(cs))
    IN  IF /\ \A k \in 1..Len(cs) : cs[k] \in Digits \cup {"."}
           /\ CountChar(cs, ".") <= 1
           /\ Len(whole) + Len(frac) >= 1
        THEN DigitsValue(whole) * Scale + FractionValue(frac, ScaleDigits)
        ELSE ValueError

Float(cs) == FloatOf(Strip(cs))

\* a call of float() without the try
Uncaught(v) == v

\* try: ... float(...) except ValueError: None
Caught(v) == IF v = ValueError THEN None ELSE v

\* a reading that takes every comma for a thousands separator
CommaStripped(num_str) == Caught(Float(ReplaceAll(num_str, ",", <<>>)))

\* "Handle different decimal formats": num_str with its decimal separator
\* turned into a dot and its thousands separators removed
Normalised(num_str) ==
    LET comma_count == CountChar(num_str, ",")
        dot_count == CountChar(num_str, ".")
    IN  IF comma_count > 0 /\ dot_count > 0
        THEN (IF RFind(num_str, ",") > RFind(num_str, ".")
              THEN ReplaceAll(ReplaceAll(num_str, ".", <<>>), ",", <<".">>)
              ELSE ReplaceAll(num_str, ",", <<>>))
        ELSE IF comma_count > 1 THEN ReplaceAll(num_str, ",", <<>>)
        ELSE IF dot_count > 1 THEN ReplaceChar(num_str, ".", <<>>, dot_count - 1)
        ELSE IF comma_count = 1 THEN ReplaceAll(num_str, ",", <<".">>)
        ELSE num_str

_parse_number(num_str) ==
    IF num_str = <<>> THEN None
    ELSE Caught(Float(Normalised(ReplaceAll(Strip(num_str), " ", <<>>))))

\* "value is not None and value > 0"
Positive(v) == v # None /\ v > 0

-----------------------------------------------------------------------------
(* Tokens and lines *)

\* an opaque word
W(s) == [k |-> "w", w |-> s, c |-> <<>>]
\* a spelled token: cs is its sequence of characters
S(cs) == [k |-> "s", w |-> "", c |-> cs]

IsWord(tok) == tok.k = "w"
IsSpelled(tok) == tok.k = "s"

\* the lines a document is made of, by identifier
Text ==
    "blank"      :> <<>> @@
    "positionen" :> <<W("POSITIONEN")>> @@
    "gesamt"     :> <<W("GESAMT")>> @@
    "header"     :> <<W("STK."), W("/"), W("NOMINALE"), W("|"),
                      W("KURSWERT"), W("IN"), W("EUR")>> @@
    "name"       :> <<W("Tesla"), W("Inc.")>> @@
    "raisin"     :> <<W("RAISIN"), W("CORP")>> @@
    "isinA"      :> <<W("ISIN:"),
                      S(<<"D","E","0","0","0","5","1","4","0","0","0","8">>)>> @@
    "isinB"      :> <<W("ISIN:"),
                      S(<<"U","S","0","3","7","8","3","3","1","0","0","5">>)>> @@
    "isinC"      :> <<W("ISIN:"),
                      S(<<"I","E","0","0","B","4","L","5","Y","9","8","3">>)>> @@
    "isinX"      :> <<W("ISIN:"),
                      S(<<"U","S","0","3","7","8","3","3","1","0","0","6">>)>> @@
    "bareB"      :> <<S(<<"U","S","0","3","7","8","3","3","1","0","0","5">>)>> @@
    "street"     :> <<S(<<"B","R","U","N","N","E","N","S","T","R","A","S">>),
                      S(<<"1","2","3">>)>> @@
    "wkn"        :> <<W("WKN:"), S(<<"8","6","5","9","8","5">>)>> @@
    "qty5"       :> <<S(<<"5",",","0","0">>), W("Stk.")>> @@
    "qty0"       :> <<S(<<"0",",","0","0">>), W("Stk.")>> @@
    "anteile"    :> <<W("Anteile"), S(<<"5","0",",","0","0">>)>> @@
    "date"       :> <<S(<<"1","5",".","0","1",".","2","0","2","6">>)>> @@
    "zum"        :> <<W("DEPOT"), W("zum"),
                      S(<<"0","1",".","0","1",".","2","0","2","6">>)>> @@
    "m250"       :> <<S(<<"2","5","0",",","0","0">>)>> @@
    "m1250"      :> <<S(<<"1",".","2","5","0",",","0","0">>)>> @@
    "wert"       :> <<W("Wert"), S(<<"1",".","7","5","5",",","0","0">>), W("EUR")>> @@
    "guthaben"   :> <<W("Guthaben"), S(<<"5","0","0",",","0","0">>), W("EUR")>> @@
    "notice"     :> <<W("Diese"), W("Aufstellung"), W("dient"), W("ausschliesslich"),
                      W("Ihrer"), W("Information"), W("und"), W("stellt"),
                      W("keine"), W("Anlageberatung"), W("oder"),
                      W("Steuerbescheinigung"), W("dar.")>> @@
    "wert75"     :> <<W("Wert"), S(<<"7","5",",","2","5">>), W("EUR")>> @@
    "available"  :> <<W("Available"), S(<<"1","2",",","5","0">>), W("USD")>> @@
    "cashword"   :> <<W("Cash")>> @@
    "fill99"     :> <<W("Abschnitt"), W("Abschnitt"), W("Abschnitt"), W("Abschnitt"),
                      W("Abschnitt"), W("Abschnitt"), W("Abschnitt"), W("Abschnitt"),
                      W("Abschnitt"), W("Abschnitt")>> @@
    "fill100"    :> <<W("Abschnitt"), W("Abschnitt"), W("Abschnitt"), W("Abschnitt"),
                      W("Abschnitt"), W("Abschnitt"), W("Abschnitt"), W("Abschnitt"),
                      W("Abschnitt"), W("Abschnitte")>>

\* len(token)
TokLen(tok) == IF IsWord(tok) THEN Len(tok.w) ELSE Len(tok.c)

\* len(line): the tokens and one blank between neighbours
RECURSIVE LineLen(_)
LineLen(l) ==
    IF l = <<>> THEN 0
    ELSE TokLen(Head(l)) + (IF Len(l) > 1 THEN 1 ELSE 0) + LineLen(Tail(l))

\* "not line.strip()"
IsBlank(id) == Text[id] = <<>>

-----------------------------------------------------------------------------
(* The regular expressions of the parser, on tokens *)

\* [0-9][0-9\.,]* : the number part of the quantity patterns
IsNumberShape(cs) ==
    /\ cs # <<>>
    /\ cs[1] \in Digits
    /\ \A k \in 1..Len(cs) : cs[k] \in Digits \cup {".", ","}

\* [0-9]+(?:[.,][0-9]+)* between word boundaries: the money_pattern; a spelled
\* token of another shape gives no match as a whole
IsMoneyShape(cs) ==
    /\ IsNumberShape(cs)
    /\ cs[Len(cs)] \in Digits
    /\ \A k \in 1..(Len(cs) - 1) : cs[k] \in {".", ","} => cs[k + 1] \in Digits

\* \b\d{2}\.\d{2}\.\d{4}\b found in a spelled token
IsWordChar(ch) == ch \in Digits \cup UpperLetters
HasDateShape(cs) ==
    \E i \in 1..(Len(cs) - 9) :
        /\ \A k \in {0, 1, 3, 4, 6, 7, 8, 9} : cs[i + k] \in Digits
        /\ cs[i + 2] = "." /\ cs[i + 5] = "."
        /\ (i = 1 \/ ~IsWordChar(cs[i - 1]))
        /\ (i + 10 > Len(cs) \/ ~IsWordChar(cs[i + 10]))

\* ISIN_PATTERN \b([A-Z]{2}[A-Z0-9]{10})\b on a spelled token
IsIsinShape(cs) ==
    /\ Len(cs) = 12
    /\ cs[1] \in UpperLetters /\ cs[2] \in UpperLetters
    /\ \A k \in 3..12 : cs[k] \in Digits \cup UpperLetters

\* (Stk\.?|Stück|Anteile) as the whole word, case ignored
UnitWords == {"Stk.", "Stk", "STK.", "STK", "Anteile", "ANTEILE"}
\* (?:Stk\.?|Stück|Anteile|Qty|Quantity)\s*[:=]? ending the word, case ignored
UnitLabelWords ==
    UnitWords \cup {"Stk.:", "Anteile:", "Qty", "Qty:", "Quantity", "Quantity:"}
\* \bISIN\b inside the word, case ignored
IsinLabelWords == {"ISIN", "ISIN:", "isin", "Isin:"}
\* \bISIN\s*: inside the word, case ignored
IsinColonWords == {"ISIN:", "Isin:"}
\* the substring 'ISIN' inside the word, case kept
IsinSubstringWords == {"ISIN", "ISIN:", "RAISIN"}
\* ^\s*(ISIN|WKN|...|Portfolio)\s*[:=] : the label and its colon as first word
FieldLabelWords ==
    {"ISIN:", "WKN:", "Stk.:", "Anteile:", "Kurs:", "Einstandskurs:", "Wert:",
     "Kurswert:", "Gesamtwert:", "Gewinn:", "Verlust:", "Depot:", "Positionen:",
     "Position:", "Datum:", "Seite:", "Page:", "Portfolio:"}
\* (?:Wert|Kurswert|Gesamtwert)\s*[:=]? ending the word, case ignored
WertLabelWords ==
    {"Wert", "Wert:", "Kurswert", "Kurswert:", "Gesamtwert", "Gesamtwert:",
     "KURSWERT", "WERT"}
\* (?:Value|Market Value)\s*[:=]? ending the word, case ignored
ValueLabelWords == {"Value", "Value:", "VALUE"}
\* \b(Wert|Kurswert|Gesamtwert|Value)\b inside the word, case ignored
WertLineWords == WertLabelWords \cup ValueLabelWords
\* (?:EUR|USD|GBP|CHF) starting the word
CurrencyWords == {"EUR", "USD", "GBP", "CHF"}
\* \bPOSITIONEN\b, case ignored
PositionenWords == {"POSITIONEN", "Positionen"}
\* \b(GESAMT|TOTAL|Summe)\b, case ignored
SectionEndWords == {"GESAMT", "Gesamt", "TOTAL", "Total", "Summe", "SUMME"}
\* \b(Cash|Guthaben|Verfügbar|Available)\b, case ignored
CashWords == {"Cash", "CASH", "Guthaben", "GUTHABEN", "Available"}

HasWordIn(l, words) == \E k \in 1..Len(l) : IsWord(l[k]) /\ l[k].w \in words

\* next_holding_pattern, qty_line_pattern and number_first_pattern:
\* ^\s*[0-9][0-9\.,]*\s*(Stk\.?|Stück|Anteile)\s*$
IsQtyLine(id) ==
    LET l == Text[id]
    IN  /\ Len(l) = 2
        /\ IsSpelled(l[1]) /\ IsNumberShape(l[1].c)
        /\ IsWord(l[2]) /\ l[2].w \in UnitWords

\* date_pattern.search(line)
IsDateLine(id) ==
    \E k \in 1..Len(Text[id]) : IsSpelled(Text[id][k]) /\ HasDateShape(Text[id][k].c)

\* re.search(r'\bISIN\b', line, re.IGNORECASE)
IsIsinLabelLine(id) == HasWordIn(Text[id], IsinLabelWords)

-----------------------------------------------------------------------------
(* Helpers on sets and sequences of line indices (1-based: line i of the   *)
(* model is lines[i - 1] of the source)                                    *)

Min(a, b) == IF a < b THEN a ELSE b
Max(a, b) == IF a > b THEN a ELSE b

\* the least element of a non-empty set of integers
Least(set) == CHOOSE x \in set : \A y \in set : x <= y
\* the greatest element of a non-empty set of integers
Greatest(set) == CHOOSE x \in set : \A y \in set : x >= y

\* sorted(set)
RECURSIVE Sorted(_)
Sorted(set) ==
    IF set = {} THEN <<>> ELSE <<Least(set)>> \o Sorted(set \ {Least(set)})

-----------------------------------------------------------------------------
(* parse_holdings_table: section and search lines *)

\* _find_holdings_section: the lines start_idx .. end_idx - 1 of the source,
\* as the first and last line of the section
WholeDocument(lines) == [first |-> 1, last |-> Len(lines)]

_find_holdings_section(lines) ==
    LET heads == {i \in 1..Len(lines) : HasWordIn(Text[lines[i]], PositionenWords)}
        first == IF heads = {} THEN 1 ELSE Least(heads)
        ends == {i \in first..Len(lines) : HasWordIn(Text[lines[i]], SectionEndWords)}
        last == IF ends = {} THEN Len(lines) ELSE Least(ends) - 1
    IN  [first |-> first, last |-> last]

\* _find_isin_lines: the lines that carry the label ISIN
_find_isin_lines(lines) == {i \in 1..Len(lines) : IsIsinLabelLine(lines[i])}

\* how far around an ISIN label the candidates are searched: range(-2, 3)
LabelReach == 2

\* search_lines of parse_holdings_table
SearchLines(lines) ==
    LET section == _find_holdings_section(lines)
        labels == _find_isin_lines(lines)
        inSection == section.first .. section.last
    IN  IF labels # {}
        THEN Sorted({i \in inSection :
                        \E l \in labels : i - l \in (0 - LabelReach)..LabelReach})
        ELSE Sorted(inSection)

\* ISIN_PATTERN.finditer(line): the candidates of a line, left to right
RECURSIVE IsinCandidates(_)
IsinCandidates(l) ==
    IF l = <<>> THEN <<>>
    ELSE (IF IsSpelled(Head(l)) /\ IsIsinShape(Head(l).c)
          THEN <<Head(l).c>> ELSE <<>>)
         \o IsinCandidates(Tail(l))

-----------------------------------------------------------------------------
(* _parse_holding_block: the block of a holding *)

\* lines looked back from the ISIN line for the start of the block
LookBack == 8
\* lines after the ISIN line of the last holding
LookAhead == 20

\* block_start (as the first line of the block)
BlockStart(idx, lines, labels) ==
    LET prev == {l \in labels : l < idx}
        blanks == IF prev = {} THEN {}
                  ELSE {i \in (Greatest(prev) + 1)..(idx - 1) : IsBlank(lines[i])}
        candidate_start ==
            IF prev = {} THEN 1
            ELSE IF blanks = {} THEN Greatest(prev) + 1
            ELSE Least(blanks) + 1
    IN  Max(Max(1, idx - LookBack), candidate_start)

\* block_end before trimming (as the last line of the block)
BlockEnd(idx, lines, labels) ==
    LET next == {l \in labels : l > idx}
    IN  IF next # {} THEN Least(next) - 1
        ELSE Min(Len(lines), idx + LookAhead - 1)

\* the block after the trim at the second quantity line below the ISIN line
TrimmedEnd(idx, lines, last) ==
    LET qtys == {i \in (idx + 1)..last : IsQtyLine(lines[i])}
    IN  IF Cardinality(qtys) >= 2 THEN Least(qtys \ {Least(qtys)}) - 1 ELSE last

\* the first and last line of block_lines
Block(idx, lines, labels) ==
    [first |-> BlockStart(idx, lines, labels),
     last |-> TrimmedEnd(idx, lines, BlockEnd(idx, lines, labels))]

\* the tokens of the block text, each with its line
RECURSIVE LineStream(_, _)
LineStream(l, i) ==
    IF l = <<>> THEN <<>>
    ELSE <<[tok |-> Head(l), line |-> i]>> \o LineStream(Tail(l), i)

RECURSIVE Stream(_, _, _)
Stream(lines, first, last) ==
    IF first > last THEN <<>>
    ELSE LineStream(Text[lines[first]], first) \o Stream(lines, first + 1, last)

-----------------------------------------------------------------------------
(* _extract_name *)

\* len(re.findall(r'\d', line))
RECURSIVE CountDigits(_)
CountDigits(cs) ==
    IF cs = <<>> THEN 0
    ELSE (IF Head(cs) \in Digits THEN 1 ELSE 0) + CountDigits(Tail(cs))

RECURSIVE DigitCount(_)
DigitCount(l) ==
    IF l = <<>> THEN 0
    ELSE (IF IsSpelled(Head(l)) THEN CountDigits(Head(l).c) ELSE 0)
         + DigitCount(Tail(l))

\* field_label_pattern.match(line)
IsFieldLabelLine(id) ==
    Text[id] # <<>> /\ IsWord(Text[id][1]) /\ Text[id][1].w \in FieldLabelWords

\* "isin in line or re.search(r'\bISIN\s*:', line, re.IGNORECASE)"
MentionsIsin(id, isin) ==
    \/ \E k \in 1..Len(Text[id]) : IsSpelled(Text[id][k]) /\ Text[id][k].c = isin
    \/ HasWordIn(Text[id], IsinColonWords)

\* lines above the ISIN line that are tried as the name
NameReach == 4

\* the loop of _extract_name from line i upwards down to line low:
\* the line taken as the name, 0 for None
RECURSIVE NameLine(_, _, _, _)
NameLine(lines, i, low, isin) ==
    IF i < low THEN 0
    ELSE LET id == lines[i]
             digit_count == DigitCount(Text[id])
         IN  IF IsBlank(id) THEN NameLine(lines, i - 1, low, isin)
             ELSE IF IsFieldLabelLine(id) THEN 0
             ELSE IF digit_count > 0 /\ digit_count > LineLen(Text[id]) \div 2
                  THEN NameLine(lines, i - 1, low, isin)
             ELSE IF MentionsIsin(id, isin) THEN NameLine(lines, i - 1, low, isin)
             ELSE i

\* _extract_name: the line whose text is the name, 0 for None
_extract_name(lines, first, idx, isin) ==
    NameLine(lines, idx - 1, Max(first, idx - NameReach), isin)

\* "'ISIN' in name" for the text of a line
ContainsIsinText(id) ==
    \/ HasWordIn(Text[id], IsinSubstringWords)
    \/ \E k \in 1..Len(Text[id]) :
          /\ IsSpelled(Text[id][k])
          /\ \E j \in 1..(Len(Text[id][k].c) - 3) :
                SubSeq(Text[id][k].c, j, j + 3) = <<"I", "S", "I", "N">>

-----------------------------------------------------------------------------
(* Numbers in the block text *)

\* [0-9\.,]+ : a token that continues the group [0-9][0-9\.,\s]*
IsNumberChars(cs) ==
    cs # <<>> /\ \A k \in 1..Len(cs) : cs[k] \in Digits \cup {".", ","}

StartsNumber(st, p) ==
    p <= Len(st) /\ IsSpelled(st[p].tok) /\ IsNumberShape(st[p].tok.c)

\* the last token of the group ([0-9][0-9\.,\s]*) that starts at token p
RECURSIVE RunEnd(_, _)
RunEnd(st, p) ==
    IF p + 1 <= Len(st) /\ IsSpelled(st[p + 1].tok) /\ IsNumberChars(st[p + 1].tok.c)
    THEN RunEnd(st, p + 1)
    ELSE p

RECURSIVE RunChars(_, _, _)
RunChars(st, p, q) ==
    IF p > q THEN <<>> ELSE st[p].tok.c \o RunChars(st, p + 1, q)

\* _parse_number(match.group(1)): blanks between tokens of one line are removed
\* by _parse_number; a line break inside the group makes float() fail
RunValue(st, p, q) ==
    IF \A k \in p..q : st[k].line = st[p].line
    THEN _parse_number(RunChars(st, p, q))
    ELSE None

-----------------------------------------------------------------------------
(* _extract_quantity_with_meta *)

\* the number-first loop from line i: the result of the first quantity line
\* whose number is positive
RECURSIVE NumberFirst(_, _, _)
NumberFirst(lines, i, last) ==
    IF i > last THEN [value |-> None, line |-> 0, method |-> "none"]
    ELSE LET qty == _parse_number(Text[lines[i]][1].c)
         IN  IF IsQtyLine(lines[i]) /\ Positive(_parse_number(Text[lines[i]][1].c))
             THEN [value |-> qty, line |-> i, method |-> "number-first"]
             ELSE NumberFirst(lines, i + 1, last)

\* re.search of the label-first pattern in the block text: the first unit label
\* followed by a number
LabelFirst(st) ==
    LET hits == {p \in 1..Len(st) :
                    /\ IsWord(st[p].tok) /\ st[p].tok.w \in UnitLabelWords
                    /\ StartsNumber(st, p + 1)}
        p == Least(hits) + 1
        qty == RunValue(st, p, RunEnd(st, p))
    IN  IF hits # {} /\ Positive(RunValue(st, Least(hits) + 1, RunEnd(st, Least(hits) + 1)))
        THEN [value |-> qty, line |-> st[p].line, method |-> "label-first"]
        ELSE [value |-> None, line |-> 0, method |-> "none"]

_extract_quantity_with_meta(lines, first, last) ==
    LET numberFirst == NumberFirst(lines, first, last)
    IN  IF numberFirst.value # None THEN numberFirst
        ELSE LabelFirst(Stream(lines, first, last))

-----------------------------------------------------------------------------
(* _extract_market_value_with_meta *)

\* re.search(r'\bKURSWERT\s+IN\s+EUR\b', block_text, re.IGNORECASE)
HasKurswertHeader(st) ==
    \E p \in 1..(Len(st) - 2) :
        /\ IsWord(st[p].tok) /\ st[p].tok.w \in {"KURSWERT", "Kurswert"}
        /\ IsWord(st[p + 1].tok) /\ st[p + 1].tok.w \in {"IN", "in"}
        /\ IsWord(st[p + 2].tok) /\ st[p + 2].tok.w \in {"EUR", "eur"}

\* lines after the date line in which a candidate counts as after the date
AfterDateReach == 4

\* the money candidates of one line, left to right
RECURSIVE LineMoney(_, _)
LineMoney(l, i) ==
    IF l = <<>> THEN <<>>
    ELSE (IF /\ IsSpelled(Head(l)) /\ IsMoneyShape(Head(l).c)
             /\ (CountChar(Head(l).c, ",") > 0 \/ CountChar(Head(l).c, ".") > 0)
             /\ Positive(_parse_number(Head(l).c))
          THEN <<[line |-> i, value |-> _parse_number(Head(l).c)]>>
          ELSE <<>>)
         \o LineMoney(Tail(l), i)

\* money_candidates as they would be if quantity lines were not skipped
RECURSIVE MoneyCandidatesWithQty(_, _, _)
MoneyCandidatesWithQty(lines, first, last) ==
    IF first > last THEN <<>>
    ELSE LineMoney(Text[lines[first]], first)
         \o MoneyCandidatesWithQty(lines, first + 1, last)

\* money_candidates: quantity lines are skipped
RECURSIVE MoneyCandidates(_, _, _)
MoneyCandidates(lines, first, last) ==
    IF first > last THEN <<>>
    ELSE (IF IsQtyLine(lines[first]) THEN <<>>
          ELSE LineMoney(Text[lines[first]], first))
         \o MoneyCandidates(lines, first + 1, last)

\* a choice of the first candidate in line order
FirstCandidate(cands) == cands[1]

\* max(candidates, key=lambda x: x[1]): the first of the largest
RECURSIVE Largest(_)
Largest(cands) ==
    IF Len(cands) = 1 THEN cands[1]
    ELSE LET rest == Largest(Tail(cands))
         IN  IF rest.value > Head(cands).value THEN rest ELSE Head(cands)

RECURSIVE SelectSeq2(_, _, _)
SelectSeq2(cands, low, high) ==
    IF cands = <<>> THEN <<>>
    ELSE (IF Head(cands).line > low /\ Head(cands).line <= high
          THEN <<Head(cands)>> ELSE <<>>)
         \o SelectSeq2(Tail(cands), low, high)

\* _extract_market_value_column_based; warn is whether the warning of the
\* missing date is appended to self.warnings
_extract_market_value_column_based(lines, first, last, warned) ==
    LET dates == {i \in first..last : IsDateLine(lines[i])}
        money_candidates == MoneyCandidates(lines, first, last)
        after_date_candidates ==
            IF dates = {} THEN <<>>
            ELSE SelectSeq2(money_candidates, Least(dates),
                            Least(dates) + AfterDateReach)
    IN  IF money_candidates = <<>>
        THEN [value |-> None, line |-> 0, method |-> "none", warn |-> FALSE]
        ELSE IF Len(after_date_candidates) >= 2
        THEN [value |-> Largest(after_date_candidates).value,
              line |-> Largest(after_date_candidates).line,
              method |-> "largest-after-date", warn |-> FALSE]
        ELSE IF Len(after_date_candidates) = 1
        THEN [value |-> after_date_candidates[1].value,
              line |-> after_date_candidates[1].line,
              method |-> "single-after-date", warn |-> FALSE]
        ELSE [value |-> Largest(money_candidates).value,
              line |-> Largest(money_candidates).line,
              method |-> "largest-in-block",
              warn |-> dates = {} /\ ~warned]

\* re.search of a labelled pattern in the block text: the first label followed
\* by a number and a currency code
LabelledMatch(st, labels) ==
    LET hits == {p \in 1..Len(st) :
                    /\ IsWord(st[p].tok) /\ st[p].tok.w \in labels
                    /\ StartsNumber(st, p + 1)
                    /\ RunEnd(st, p + 1) + 1 <= Len(st)
                    /\ IsWord(st[RunEnd(st, p + 1) + 1].tok)
                    /\ st[RunEnd(st, p + 1) + 1].tok.w \in CurrencyWords}
    IN  IF hits = {} THEN [value |-> None, line |-> 0]
        ELSE [value |-> RunValue(st, Least(hits) + 1, RunEnd(st, Least(hits) + 1)),
              line |-> st[Least(hits) + 1].line]

\* number_pattern.search(line): the first number of the line followed by a
\* currency code
LineValue(l, i) ==
    LET st == LineStream(l, i)
        hits == {p \in 1..Len(st) :
                    /\ StartsNumber(st, p)
                    /\ RunEnd(st, p) + 1 <= Len(st)
                    /\ IsWord(st[RunEnd(st, p) + 1].tok)
                    /\ st[RunEnd(st, p) + 1].tok.w \in CurrencyWords}
    IN  IF hits = {} THEN None
        ELSE RunValue(st, Least(hits), RunEnd(st, Least(hits)))

\* the loop over the lines with Wert or Value of _extract_market_value_labeled
RECURSIVE WertLine(_, _, _)
WertLine(lines, i, last) ==
    IF i > last THEN [value |-> None, line |-> 0, method |-> "none", warn |-> FALSE]
    ELSE IF /\ HasWordIn(Text[lines[i]], WertLineWords)
            /\ Positive(LineValue(Text[lines[i]], i))
         THEN [value |-> LineValue(Text[lines[i]], i), line |-> i,
               method |-> "wert-line", warn |-> FALSE]
         ELSE WertLine(lines, i + 1, last)

_extract_market_value_labeled(lines, first, last) ==
    LET st == Stream(lines, first, last)
        wert == LabelledMatch(st, WertLabelWords)
        value == LabelledMatch(st, ValueLabelWords)
    IN  IF Positive(wert.value)
        THEN [value |-> wert.value, line |-> wert.line,
              method |-> "labeled-pattern", warn |-> FALSE]
        ELSE IF Positive(value.value)
        THEN [value |-> value.value, line |-> value.line,
              method |-> "labeled-pattern", warn |-> FALSE]
        ELSE WertLine(lines, first, last)

\* _extract_market_value_with_meta as it would be if the column-based rules were
\* applied whether or not the block has the header
AlwaysColumnBased(lines, first, last, warned) ==
    _extract_market_value_column_based(lines, first, last, warned)

_extract_market_value_with_meta(lines, first, last, warned) ==
    IF HasKurswertHeader(Stream(lines, first, last))
    THEN _extract_market_value_column_based(lines, first, last, warned)
    ELSE _extract_market_value_labeled(lines, first, last)

\* _extract_currency: the first currency code of the block, EUR by default
_extract_currency(st) ==
    LET hits == {p \in 1..Len(st) : IsWord(st[p].tok) /\ st[p].tok.w \in CurrencyWords}
    IN  IF hits = {} THEN "EUR" ELSE st[Least(hits)].tok.w

-----------------------------------------------------------------------------
(* _parse_holding_block: the holding and its warnings *)

Warning(kind, isin) == [kind |-> kind, isin |-> isin]

\* the warnings as they would be if a missing quantity were not reported
HoldingWarningsNoQuantity(isin, noName, quantity, market_value) ==
    (IF noName THEN <<Warning("name", isin)>> ELSE <<>>)
    \o (IF market_value = None THEN <<Warning("market_value", isin)>> ELSE <<>>)

\* "Could not extract ... for {isin}", in the order name, quantity, market value
HoldingWarnings(isin, noName, quantity, market_value) ==
    (IF noName THEN <<Warning("name", isin)>> ELSE <<>>)
    \o (IF quantity = None THEN <<Warning("quantity", isin)>> ELSE <<>>)
    \o (IF market_value = None THEN <<Warning("market_value", isin)>> ELSE <<>>)

\* the test as it would be without "'ISIN' in name"
NameRejectedNoIsinCheck(lines, name_line) == name_line = 0

\* "if not name or 'ISIN' in name": the name is replaced by the placeholder
NameRejected(lines, name_line) ==
    name_line = 0 \/ ContainsIsinText(lines[name_line])

\* the holding dict that _parse_holding_block returns.  The field meta is not
\* part of the dict: it records the lines of the block and the line and method
\* (qty_method, mv_method) each value was read from.
HoldingDict(isin, idx, lines, block, name_line, qty, mv, currency) ==
    [security_id |-> isin,
     isin |-> isin,
     name |-> IF NameRejected(lines, name_line)
              THEN [placeholder |-> TRUE, text |-> "Unknown", isin |-> isin]
              ELSE [placeholder |-> FALSE, text |-> lines[name_line], isin |-> <<>>],
     quantity |-> qty.value,
     currency |-> currency,
     cost_basis |-> None,
     market_data |-> IF mv.value # None
                     THEN <<[market_value |-> mv.value, currency |-> currency]>>
                     ELSE <<>>,
     meta |-> [isin_line |-> idx, first |-> block.first, last |-> block.last,
               qty_line |-> qty.line, qty_method |-> qty.method,
               mv_line |-> mv.line, mv_method |-> mv.method]]

\* the extraction steps of _parse_holding_block on block_lines: the holding,
\* the warnings appended to self.warnings in order, the flag _warned_no_date
ParsedBlock(isin, idx, lines, block, name_line, qty, mv, currency, warned) ==
    [holding |-> HoldingDict(isin, idx, lines, block, name_line, qty, mv, currency),
     warnings |->
        (IF mv.warn THEN <<Warning("no_date", <<>>)>> ELSE <<>>)
        \o HoldingWarnings(isin, NameRejected(lines, name_line), qty.value, mv.value),
     warned |-> warned \/ mv.warn]

ExtractBlock(isin, idx, lines, block, warned) ==
    ParsedBlock(isin, idx, lines, block,
                _extract_name(lines, block.first, idx, isin),
                _extract_quantity_with_meta(lines, block.first, block.last),
                _extract_market_value_with_meta(lines, block.first, block.last, warned),
                _extract_currency(Stream(lines, block.first, block.last)),
                warned)

\* _parse_holding_block: the block, then the extraction
_parse_holding_block(isin, idx, lines, labels, warned) ==
    ExtractBlock(isin, idx, lines, Block(idx, lines, labels), warned)

-----------------------------------------------------------------------------
(* parse_holdings_table: the loop over the candidates of one search line *)

\* the state of the loop: what one candidate changes
ScanState(h, p, w, c, v, d) ==
    [holdings |-> h, processed |-> p, warnings |-> w,
     isin_candidates |-> c, valid_isins |-> v, warned_no_date |-> d]

\* a candidate that is counted and skipped: "continue"
Skipped(st) == [st EXCEPT !.isin_candidates = @ + 1]

\* a candidate that becomes a holding: valid_isins.append, processed_isins.add,
\* holdings.append
Accepted(candidate, st, parsed) ==
    ScanState(Append(st.holdings, parsed.holding),
              st.processed \cup {candidate},
              st.warnings \o parsed.warnings,
              st.isin_candidates + 1,
              st.valid_isins + 1,
              parsed.warned)

\* one candidate as it would be handled without the checksum
ScanCandidateUnchecked(candidate, idx, lines, labels, st) ==
    IF candidate \in st.processed THEN Skipped(st)
    ELSE Accepted(candidate, st,
                  _parse_holding_block(candidate, idx, lines, labels,
                                       st.warned_no_date))

\* one candidate as it would be handled without processed_isins
ScanCandidateNoDedup(candidate, idx, lines, labels, st) ==
    IF ~is_valid_isin(candidate) THEN Skipped(st)
    ELSE Accepted(candidate, st,
                  _parse_holding_block(candidate, idx, lines, labels,
                                       st.warned_no_date))

\* one candidate of line idx
ScanCandidate(candidate, idx, lines, labels, st) ==
    IF candidate \in st.processed THEN Skipped(st)
    ELSE IF ~is_valid_isin(candidate) THEN Skipped(st)
    ELSE Accepted(candidate, st,
                  _parse_holding_block(candidate, idx, lines, labels,
                                       st.warned_no_date))

\* "for match in self.ISIN_PATTERN.finditer(line)"
RECURSIVE ScanCandidates(_, _, _, _, _)
ScanCandidates(cands, idx, lines, labels, st) ==
    IF cands = <<>> THEN st
    ELSE ScanCandidates(Tail(cands), idx, lines, labels,
                        ScanCandidate(Head(cands), idx, lines, labels, st))

-----------------------------------------------------------------------------
(* parse: the scanned-PDF check and the cash position *)

\* detect_scanned_pdf: fewer characters than this is a scanned PDF
ScannedThreshold == 100

\* len(text.strip()): the lines from the first to the last that is not blank,
\* and the line breaks between them
RECURSIVE SumLineLen(_, _, _)
SumLineLen(lines, first, last) ==
    IF first > last THEN 0
    ELSE LineLen(Text[lines[first]]) + SumLineLen(lines, first + 1, last)

StrippedLen(lines) ==
    LET full == {i \in 1..Len(lines) : ~IsBlank(lines[i])}
    IN  IF full = {} THEN 0
        ELSE SumLineLen(lines, Least(full), Greatest(full))
             + (Greatest(full) - Least(full))

\* a check that takes a text of exactly the threshold for scanned too
ScannedInclusive(lines) == StrippedLen(lines) <= ScannedThreshold

detect_scanned_pdf(lines) == StrippedLen(lines) < ScannedThreshold

\* the end of the last match of number_pattern
\* ([-+]?\d{1,3}(?:[,.\s]\d{3})*(?:[.,]\d+)?) that starts at character i of a
\* spelled token: up to three digits, groups of a separator and three digits,
\* a decimal part
RECURSIVE DigitRunEnd(_, _, _)
DigitRunEnd(cs, i, most) ==
    IF most > 0 /\ i + 1 <= Len(cs) /\ cs[i + 1] \in Digits
    THEN DigitRunEnd(cs, i + 1, most - 1)
    ELSE i

RECURSIVE GroupsEnd(_, _)
GroupsEnd(cs, i) ==
    IF /\ i + 4 <= Len(cs)
       /\ cs[i + 1] \in {",", "."}
       /\ \A k \in 2..4 : cs[i + k] \in Digits
    THEN GroupsEnd(cs, i + 4)
    ELSE i

CashMatchEnd(cs, i) ==
    LET head == DigitRunEnd(cs, i, 2)
        groups == GroupsEnd(cs, head)
    IN  IF groups + 2 <= Len(cs) /\ cs[groups + 1] \in {",", "."}
           /\ cs[groups + 2] \in Digits
        THEN DigitRunEnd(cs, groups + 2, Len(cs))
        ELSE groups

\* number_pattern.findall on a spelled token, from character i: matches[-1]
RECURSIVE LastCashMatch(_, _, _)
LastCashMatch(cs, i, found) ==
    IF i > Len(cs) THEN found
    ELSE IF cs[i] \in Digits
         THEN LastCashMatch(cs, CashMatchEnd(cs, i) + 1,
                            SubSeq(cs, i, CashMatchEnd(cs, i)))
         ELSE LastCashMatch(cs, i + 1, found)

\* the amount of a line with a cash keyword: float(matches[-1] with ',' for '.'),
\* None when the line has no number or float() fails
CashAmount(l) ==
    LET nums == {k \in 1..Len(l) : IsSpelled(l[k]) /\ CountDigits(l[k].c) > 0}
        amount_str == LastCashMatch(l[Greatest(nums)].c, 1, <<>>)
    IN  IF nums = {} THEN None
        ELSE Caught(Float(ReplaceAll(amount_str, ",", <<".">>)))

\* a parser that extracts no cash position
NoCashPosition(lines, i) == <<>>

\* parse_cash_position: the cash position as a list of at most one item
RECURSIVE parse_cash_position(_, _)
parse_cash_position(lines, i) ==
    IF i > Len(lines) THEN <<>>
    ELSE IF HasWordIn(Text[lines[i]], CashWords) /\ CashAmount(Text[lines[i]]) # None
         THEN <<[currency |-> _extract_currency(LineStream(Text[lines[i]], i)),
                 amount |-> CashAmount(Text[lines[i]]),
                 cash_type |-> "available"]>>
         ELSE parse_cash_position(lines, i + 1)

-----------------------------------------------------------------------------
(* The documents of the specifications *)

\* the lines of the free-form documents of Spec
FreeLines ==
    {"blank", "header", "raisin", "isinA", "isinB", "isinX", "street",
     "qty5", "qty0", "date", "m250", "wert"}

\* every sequence of at most n lines
Documents(n) == UNION {[1..k -> FreeLines] : k \in 0..n}

\* the text after the holdings that makes a document long enough for parse
Footers(e) == IF e = "parse" THEN {<<>>, <<"notice">>} ELSE {<<>>}

\* a holding row: quantity line, name, ISIN line, values, separator
Tops == {<<>>, <<"qty5">>, <<"qty0">>}
Tails ==
    {<<>>, <<"m250", "date", "m1250">>, <<"date", "m250", "m1250">>, <<"wert">>}
Separators == {<<>>, <<"blank">>}
RowIsins == <<"isinA", "isinB", "isinC">>
RowIsin(i) == RowIsins[((i - 1) % Len(RowIsins)) + 1]

Rows(i) ==
    {top \o <<"name", RowIsin(i)>> \o tail \o sep :
        top \in Tops, tail \in Tails, sep \in Separators}

\* the documents of n rows, the i-th row carrying the i-th ISIN
RECURSIVE RowDocuments(_)
RowDocuments(n) ==
    IF n = 0 THEN {<<>>}
    ELSE {d \o r : d \in RowDocuments(n - 1), r \in Rows(n)}

Preambles == {<<>>, <<"header">>}

Entries == {"parse", "parse_holdings_table"}

-----------------------------------------------------------------------------
(* The state machine *)

Start(d, e) ==
    /\ doc = d
    /\ entry = e
    /\ pc = IF e = "parse" THEN "start" ELSE "scan"
    /\ pos = 1
    /\ holdings = <<>>
    /\ processed = {}
    /\ warnings = <<>>
    /\ isin_candidates = 0
    /\ valid_isins = 0
    /\ warned_no_date = FALSE
    /\ cash = <<>>
    /\ call = 1
    /\ first_result = <<>>
    /\ shared = FALSE
    /\ arg = <<>>
    /\ ret = <<>>
    /\ account_name = "unknown"
    /\ snapshot = <<>>
    /\ request = <<>>
    /\ result = <<>>
    /\ files = <<>>

\* a fresh parser and a document of at most MaxLines free lines
Init ==
    \E e \in Entries : \E body \in Documents(MaxLines) : \E foot \in Footers(e) :
        Start(body \o foot, e)

\* a fresh parser and a document of at most MaxRows holding rows
InitRows ==
    \E e \in Entries : \E pre \in Preambles : \E n \in 0..MaxRows :
        \E rows \in RowDocuments(n) : Start(pre \o rows, e)

\* parse: extract_text and the scanned-PDF check; IngestError ends the call
DetectScanned ==
    /\ pc = "start"
    /\ pc' = IF detect_scanned_pdf(doc) THEN "raised" ELSE "scan"
    /\ UNCHANGED <<doc, entry, pos, holdings, processed, warnings,
                   isin_candidates, valid_isins, warned_no_date, cash>>
    /\ UNCHANGED <<callVars, fnVars, snapVars, ingestVars>>

\* parse_holdings_table: one iteration of "for i in search_lines"
ScanLine ==
    /\ pc = "scan"
    /\ pos <= Len(SearchLines(doc))
    /\ \E idx \in {SearchLines(doc)[pos]} :
          \E st \in {ScanCandidates(IsinCandidates(Text[doc[idx]]), idx, doc,
                                    _find_isin_lines(doc),
                                    ScanState(holdings, processed, warnings,
                                              isin_candidates, valid_isins,
                                              warned_no_date))} :
              /\ holdings' = st.holdings
              /\ processed' = st.processed
              /\ warnings' = st.warnings
              /\ isin_candidates' = st.isin_candidates
              /\ valid_isins' = st.valid_isins
              /\ warned_no_date' = st.warned_no_date
    /\ pos' = pos + 1
    /\ UNCHANGED <<doc, entry, pc, cash>>
    /\ UNCHANGED <<callVars, fnVars, snapVars, ingestVars>>

\* parse_holdings_table called directly: return holdings
ReturnHoldings ==
    /\ pc = "scan"
    /\ entry = "parse_holdings_table"
    /\ pos > Len(SearchLines(doc))
    /\ pc' = "returned"
    /\ UNCHANGED <<doc, entry, pos, holdings, processed, warnings,
                   isin_candidates, valid_isins, warned_no_date, cash>>
    /\ UNCHANGED <<callVars, fnVars, snapVars, ingestVars>>

\* parse after parse_holdings_table: the warning of no holdings, the cash
\* position and its warning, the result
ReturnParse ==
    /\ pc = "scan"
    /\ entry = "parse"
    /\ pos > Len(SearchLines(doc))
    /\ cash' = parse_cash_position(doc, 1)
    /\ warnings' =
          warnings
          \o (IF holdings = <<>> THEN <<Warning("no_holdings", <<>>)>> ELSE <<>>)
          \o (IF parse_cash_position(doc, 1) = <<>>
              THEN <<Warning("no_cash", <<>>)>> ELSE <<>>)
    /\ pc' = "returned"
    /\ UNCHANGED <<doc, entry, pos, holdings, processed,
                   isin_candidates, valid_isins, warned_no_date>>
    /\ UNCHANGED <<callVars, fnVars, snapVars, ingestVars>>

Next == DetectScanned \/ ScanLine \/ ReturnHoldings \/ ReturnParse

Spec == Init /\ [][Next]_vars

SpecRows == InitRows /\ [][Next]_vars

\* the head of a statement: the title with the date of the statement, then
\* the column header
DatedPreambles ==
    {<<"zum", "header">>, <<"zum", "blank", "header">>, <<"blank", "zum", "header">>}

\* a fresh parser and a statement with a dated title and one holding row
InitDated ==
    \E e \in Entries : \E pre \in DatedPreambles : \E row \in Rows(1) :
        Start(pre \o row, e)

SpecDated == InitDated /\ [][Next]_vars

\* the lines of the documents with a holdings section: the section header,
\* the line of the total, an ISIN with its label and an ISIN without
SectionLines == {"positionen", "gesamt", "isinA", "bareB", "name"}

\* a fresh parser and a document of at most MaxSection of these lines
InitSection ==
    \E e \in Entries : \E k \in 0..MaxSection : \E body \in [1..k -> SectionLines] :
        \E foot \in Footers(e) : Start(body \o foot, e)

SpecSection == InitSection /\ [][Next]_vars

\* the call has returned its result
Returned == pc = "returned"

(***************************************************************************)
(* A second call of parse over the same document                           *)
(***************************************************************************)

\* the result dict of parse as handed to the caller: 'warnings' is the
\* list self.warnings itself, not a copy of it
Result == [holdings |-> holdings, cash |-> cash, warnings |-> warnings]

\* the attributes of the parser instance in use
Attributes ==
    [warnings |-> warnings, isin_candidates |-> isin_candidates,
     valid_isins |-> valid_isins, warned_no_date |-> warned_no_date]

\* attributes that outlive the instance, as class-level attributes would
Inherited == Attributes

\* TradeRepublicParser.__init__: the attributes of a new instance;
\* _warned_no_date does not exist before its first warning
__init__ ==
    [warnings |-> <<>>, isin_candidates |-> 0, valid_isins |-> 0,
     warned_no_date |-> FALSE]

\* parse entered a second time with the instance attributes inst; holdings,
\* processed_isins and cash are locals of the call and start empty
SecondCall(inst) ==
    /\ pc = "returned"
    /\ entry = "parse"
    /\ call = 1
    /\ call' = 2
    /\ first_result' = Result
    /\ pc' = "start"
    /\ pos' = 1
    /\ holdings' = <<>>
    /\ processed' = {}
    /\ cash' = <<>>
    /\ warnings' = inst.warnings
    /\ isin_candidates' = inst.isin_candidates
    /\ valid_isins' = inst.valid_isins
    /\ warned_no_date' = inst.warned_no_date
    /\ UNCHANGED <<doc, entry, fnVars, snapVars, ingestVars>>

\* parser.parse() called again on the same instance: nothing in parse or
\* parse_holdings_table resets self.warnings, the counters or _warned_no_date
ParseAgain ==
    /\ SecondCall(Attributes)
    /\ shared' = TRUE

\* TradeRepublicParser(pdf_path).parse() on a new instance over the same file
NewParser ==
    /\ SecondCall(__init__)
    /\ shared' = FALSE

NextTwice == DetectScanned \/ ScanLine \/ ReturnParse \/ ParseAgain \/ NewParser

\* a fresh parser, a document of at most MaxLines free lines, parse called twice
InitTwice ==
    \E body \in Documents(MaxLines) : \E foot \in Footers("parse") :
        Start(body \o foot, "parse")

SpecTwice == InitTwice /\ [][NextTwice]_vars

\* the second call has returned its result
ReturnedTwice == Returned /\ call = 2

\* the 'warnings' list of the first result as the caller sees it now: on the
\* same instance it is the list the second call appended to
FirstWarningsNow == IF shared THEN warnings ELSE first_result.warnings

(***************************************************************************)
(* create_canonical_snapshot over the result of parse                      *)
(***************************************************************************)

AccountNames == {"unknown", "main"}

\* f'trade_republic_{account_name}'
AccountId(name) == <<"trade_republic_", name>>

\* "for cash_item in snapshot['cash']: cash_item['account_id'] = ...": the
\* items are those of parsed_data['cash'], the list itself is parsed_data's
RECURSIVE TagCash(_, _)
TagCash(items, id) ==
    IF items = <<>> THEN <<>>
    ELSE <<[currency |-> Head(items).currency, amount |-> Head(items).amount,
            cash_type |-> Head(items).cash_type, account_id |-> id]>>
         \o TagCash(Tail(items), id)

\* snapshot_holding['market_data'] = holding['market_data'] and
\* snapshot_holding['market_data']['price_date'] = now.isoformat(): the dict
\* is the one of the parsed holding
DateMarketData(md) ==
    IF md = <<>> THEN <<>>
    ELSE <<[market_value |-> md[1].market_value, currency |-> md[1].currency,
            price_date |-> "now"]>>

\* the parsed holdings after the loop over parsed_data['holdings']
RECURSIVE DatedHoldings(_)
DatedHoldings(hs) ==
    IF hs = <<>> THEN <<>>
    ELSE <<[Head(hs) EXCEPT !.market_data = DateMarketData(@)]>>
         \o DatedHoldings(Tail(hs))

\* snapshot_holding of one parsed holding; cost_basis is copied only when it
\* is truthy and the parser sets it to None
SnapshotHolding(h, id) ==
    [security_id |-> h.security_id,
     security_type |-> "stock",
     name |-> h.name,
     isin |-> h.isin,
     quantity |-> h.quantity,
     currency |-> h.currency,
     account_id |-> id,
     market_data |-> DateMarketData(h.market_data)]

RECURSIVE SnapshotHoldings(_, _)
SnapshotHoldings(hs, id) ==
    IF hs = <<>> THEN <<>>
    ELSE <<SnapshotHolding(Head(hs), id)>> \o SnapshotHoldings(Tail(hs), id)

\* h.get('market_data', {}).get('market_value', 0) or 0
ValueOrZero(h) ==
    IF h.market_data = <<>> THEN 0
    ELSE IF h.market_data[1].market_value = None THEN 0
         ELSE h.market_data[1].market_value

\* sum(... for h in snapshot['holdings'])
RECURSIVE SumMarketValue(_)
SumMarketValue(hs) ==
    IF hs = <<>> THEN 0 ELSE ValueOrZero(Head(hs)) + SumMarketValue(Tail(hs))

\* sum(c.get('amount', 0) or 0 for c in snapshot['cash'])
RECURSIVE SumCash(_)
SumCash(items) ==
    IF items = <<>> THEN 0
    ELSE (IF Head(items).amount = None THEN 0 ELSE Head(items).amount)
         + SumCash(Tail(items))

\* total_portfolio_value left without the cash
TotalsWithoutCash(hs, items) ==
    [base_currency |-> "EUR",
     total_market_value |-> SumMarketValue(hs),
     total_cash |-> SumCash(items),
     total_portfolio_value |-> SumMarketValue(hs)]

\* snapshot['totals'] after "Calculate totals"
Totals(hs, items) ==
    [base_currency |-> "EUR",
     total_market_value |-> SumMarketValue(hs),
     total_cash |-> SumCash(items),
     total_portfolio_value |-> SumMarketValue(hs) + SumCash(items)]

\* "Parser warning: {warning}" for every warning of parsed_data
RECURSIVE WarningNotes(_)
WarningNotes(ws) ==
    IF ws = <<>> THEN <<>>
    ELSE <<[note |-> "parser_warning", warning |-> Head(ws)]>>
         \o WarningNotes(Tail(ws))

\* metadata.validation_notes: the count of holdings without market_data or
\* cost_basis when it is positive, then the parser warnings
ValidationNotes(hs, ws) ==
    LET missing == {i \in 1..Len(hs) :
                       hs[i].market_data = <<>> \/ hs[i].cost_basis = None}
    IN  (IF missing # {}
         THEN <<[note |-> "incomplete", count |-> Cardinality(missing)]>>
         ELSE <<>>)
        \o WarningNotes(ws)

\* create_canonical_snapshot(parsed_data, source_pdf_path, account_name) on
\* the result of parse: the snapshot, and parsed_data as the call leaves it
CreateSnapshot ==
    /\ pc = "returned"
    /\ entry = "parse"
    /\ \E name \in AccountNames :
          /\ account_name' = name
          /\ snapshot' =
                [account_id |-> AccountId(name),
                 holdings |-> SnapshotHoldings(holdings, AccountId(name)),
                 cash |-> TagCash(cash, AccountId(name)),
                 totals |-> Totals(holdings, cash),
                 validation_notes |-> ValidationNotes(holdings, warnings)]
          /\ cash' = TagCash(cash, AccountId(name))
    /\ holdings' = DatedHoldings(holdings)
    /\ first_result' = Result
    /\ pc' = "snapshot"
    /\ UNCHANGED <<doc, entry, pos, processed, warnings, isin_candidates,
                   valid_isins, warned_no_date, call, shared, fnVars, ingestVars>>

NextSnapshot == DetectScanned \/ ScanLine \/ ReturnParse \/ CreateSnapshot

\* the lines of the documents of SpecSnapshot
SnapshotLines ==
    {"blank", "header", "isinA", "isinB", "qty5", "m250", "wert75",
     "guthaben", "available", "cashword"}

\* footers that bring a document to 99 and to 100 characters and beyond
Fillers == {<<>>, <<"fill99">>, <<"fill100">>}

\* the cash line that closes the statement, if any
CashTails == {<<>>, <<"guthaben">>}

\* a fresh parser and a document of at most MaxLines lines, a cash line and
\* a footer
InitSnapshot ==
    \E body \in UNION {[1..k -> SnapshotLines] : k \in 0..MaxLines} :
        \E tail \in CashTails : \E foot \in Fillers :
            Start(body \o tail \o foot, "parse")

SpecSnapshot == InitSnapshot /\ [][NextSnapshot]_vars

\* create_canonical_snapshot has returned
SnapshotCreated == pc = "snapshot"

(***************************************************************************)
(* ingest_pdf: validation, parse, and the files it writes                  *)
(***************************************************************************)

\* result as ingest_pdf initialises it; a path that is None is <<>>
InitialResult ==
    [success |-> FALSE, raw_pdf_path |-> <<>>, snapshot_path |-> <<>>,
     csv_path |-> <<>>, latest_path |-> <<>>, warnings |-> <<>>,
     holdings_count |-> 0]

\* pdf_path.suffix of the paths handed to ingest_pdf
Suffixes == {".pdf", ".PDF", ".txt"}

\* str.lower on a suffix
Lower(suffix) == IF suffix = ".PDF" THEN ".pdf" ELSE suffix

\* the calls of ingest_pdf: whether pdf_path exists, its suffix, export_csv
Requests ==
    [exists : BOOLEAN, suffix : Suffixes, export_csv : BOOLEAN]

\* a validation that lets every path pass
AnyPath(req) == TRUE

\* "Validate PDF exists": neither IngestError of the validation is raised
ValidPath(req) == req.exists /\ Lower(req.suffix) = ".pdf"

\* datetime.now(timezone.utc) formatted to the second, at two moments
Times == {"t1", "t2"}

\* what a write of a file comes to: the file is written; the write raises
\* after the file was opened; the write raises before the file exists
Outcomes == {"written", "partial", "failed"}

\* the files after a write of the file kind with the timestamp id in its
\* name or content
Written(kind, id, outcome) ==
    IF outcome = "failed" THEN files
    ELSE Append(files, [kind |-> kind, id |-> id, complete |-> outcome = "written"])

\* the position after a write: an exception leaves ingest_pdf
After(outcome, next) == IF outcome = "written" THEN next ELSE "raised"

\* the documents of the PDFs ingested: empty, one and two holdings, a row
\* with value and cash, each with the footers around the scanned threshold
IngestDocuments ==
    {body \o foot :
        body \in {<<>>, <<"isinA">>, <<"isinA", "isinB">>,
                  <<"qty5", "isinA", "wert75", "guthaben">>},
        foot \in Fillers}

\* ingest_pdf is called: result is initialised, nothing is parsed or written
InitIngest ==
    \E d \in IngestDocuments : \E req \in Requests : \E name \in AccountNames :
        /\ doc = d
        /\ entry = "parse"
        /\ pc = "ingest"
        /\ pos = 1
        /\ holdings = <<>>
        /\ processed = {}
        /\ warnings = <<>>
        /\ isin_candidates = 0
        /\ valid_isins = 0
        /\ warned_no_date = FALSE
        /\ cash = <<>>
        /\ call = 1
        /\ first_result = <<>>
        /\ shared = FALSE
        /\ arg = <<>>
        /\ ret = <<>>
        /\ account_name = name
        /\ snapshot = <<>>
        /\ request = req
        /\ result = InitialResult
        /\ files = <<>>

\* "if not pdf_path.exists()" and "if not pdf_path.suffix.lower() == '.pdf'":
\* IngestError, or the parser is constructed and parse is called
ValidatePath ==
    /\ pc = "ingest"
    /\ pc' = IF ValidPath(request) THEN "start" ELSE "raised"
    /\ UNCHANGED <<doc, entry, pos, holdings, processed, warnings,
                   isin_candidates, valid_isins, warned_no_date, cash>>
    /\ UNCHANGED <<callVars, fnVars, snapVars, ingestVars>>

\* result['warnings'], result['holdings_count'], then copy_pdf_to_raw
CopyRaw ==
    /\ pc = "returned"
    /\ entry = "parse"
    /\ \E now \in Times : \E outcome \in Outcomes :
          /\ files' = Written("raw", now, outcome)
          /\ result' = [result EXCEPT
                            !.warnings = @ \o warnings,
                            !.holdings_count = Len(holdings),
                            !.raw_pdf_path =
                                IF outcome = "written" THEN <<now>> ELSE @]
          /\ pc' = After(outcome, "copied")
    /\ UNCHANGED <<doc, entry, pos, holdings, processed, warnings,
                   isin_candidates, valid_isins, warned_no_date, cash>>
    /\ UNCHANGED <<callVars, fnVars, snapVars, request>>

\* create_canonical_snapshot, then write_snapshot: <snapshot_id>.json
WriteSnapshot ==
    /\ pc = "copied"
    /\ \E now \in Times : \E outcome \in Outcomes :
          /\ snapshot' =
                [snapshot_id |-> now,
                 account_id |-> AccountId(account_name),
                 holdings |-> SnapshotHoldings(holdings, AccountId(account_name)),
                 cash |-> TagCash(cash, AccountId(account_name)),
                 totals |-> Totals(holdings, cash),
                 validation_notes |-> ValidationNotes(holdings, warnings)]
          /\ files' = Written("snapshot", now, outcome)
          /\ result' = [result EXCEPT
                            !.snapshot_path =
                                IF outcome = "written" THEN <<now>> ELSE @]
          /\ pc' = After(outcome, "snapshot_written")
    /\ cash' = TagCash(cash, AccountId(account_name))
    /\ holdings' = DatedHoldings(holdings)
    /\ UNCHANGED <<doc, entry, pos, processed, warnings, isin_candidates,
                   valid_isins, warned_no_date, callVars, fnVars,
                   account_name, request>>

\* write_latest_link: latest.json with the snapshot_id of the snapshot
WriteLatest ==
    /\ pc = "snapshot_written"
    /\ \E outcome \in Outcomes :
          /\ files' = Written("latest", snapshot.snapshot_id, outcome)
          /\ result' = [result EXCEPT
                            !.latest_path =
                                IF outcome = "written" THEN <<"latest.json">> ELSE @]
          /\ pc' = After(outcome, "latest_written")
    /\ UNCHANGED <<doc, entry, pos, holdings, processed, warnings,
                   isin_candidates, valid_isins, warned_no_date, cash>>
    /\ UNCHANGED <<callVars, fnVars, snapVars, request>>

\* "if export_csv": write_csv_export, <snapshot_id>_holdings.csv
WriteCsv ==
    /\ pc = "latest_written"
    /\ request.export_csv
    /\ \E outcome \in Outcomes :
          /\ files' = Written("csv", snapshot.snapshot_id, outcome)
          /\ result' = [result EXCEPT
                            !.csv_path =
                                IF outcome = "written"
                                THEN <<snapshot.snapshot_id>> ELSE @]
          /\ pc' = After(outcome, "csv_written")
    /\ UNCHANGED <<doc, entry, pos, holdings, processed, warnings,
                   isin_candidates, valid_isins, warned_no_date, cash>>
    /\ UNCHANGED <<callVars, fnVars, snapVars, request>>

\* result['success'] = True; return result
ReturnResult ==
    /\ \/ pc = "csv_written"
       \/ pc = "latest_written" /\ ~request.export_csv
    /\ result' = [result EXCEPT !.success = TRUE]
    /\ pc' = "ingested"
    /\ UNCHANGED <<doc, entry, pos, holdings, processed, warnings,
                   isin_candidates, valid_isins, warned_no_date, cash>>
    /\ UNCHANGED <<callVars, fnVars, snapVars, request, files>>

NextIngest ==
    \/ ValidatePath
    \/ DetectScanned
    \/ ScanLine
    \/ ReturnParse
    \/ CopyRaw
    \/ WriteSnapshot
    \/ WriteLatest
    \/ WriteCsv
    \/ ReturnResult

SpecIngest == InitIngest /\ [][NextIngest]_vars

\* ingest_pdf has returned its result
Ingested == pc = "ingested"

(***************************************************************************)
(* Calls of _parse_number and is_valid_isin on their own                   *)
(***************************************************************************)

\* a call of the function fn with the argument a, on a fresh parser
StartCall(fn, a) ==
    /\ doc = <<>>
    /\ entry = fn
    /\ pc = "call"
    /\ pos = 1
    /\ holdings = <<>>
    /\ processed = {}
    /\ warnings = <<>>
    /\ isin_candidates = 0
    /\ valid_isins = 0
    /\ warned_no_date = FALSE
    /\ cash = <<>>
    /\ call = 1
    /\ first_result = <<>>
    /\ shared = FALSE
    /\ arg = a
    /\ ret = <<>>
    /\ account_name = "unknown"
    /\ snapshot = <<>>
    /\ request = <<>>
    /\ result = <<>>
    /\ files = <<>>

\* the function has returned or raised
Done == pc = "done"

\* the characters of the tokens: digits, both separators, blank, line break
\* and a currency symbol
NumberChars == {"1", "5", ".", ",", " ", "\n", "$"}

\* the numbers named by the documentation of the number formats, and tokens
\* with a unit suffix, a currency code and a percent sign
Vectors ==
    {<<"1", ".", "2", "3", "4", ",", "5", "6">>,
     <<"1", ",", "2", "3", "4", ".", "5", "6">>,
     <<"1", "2", ",", "3", "4", "5", "6", "7", "8">>,
     <<"4", "7", "4", ",", "1", "5", "5", "3", "4", "6">>,
     <<"1", ".", "2", "3", "4", ".", "5", "6", "7">>,
     <<"5", ",", "0", "0", "S", "t", "k", ".">>,
     <<"5", "E", "U", "R">>,
     <<"1", "2", ",", "5", "%">>}

\* the digits of a token, in order
DigitsOf(cs) == SelectSeq(cs, LAMBDA c : c \in Digits)

\* the largest whole part whose fixed-point value fits 32 bits
MaxWhole == 2147

\* the tokens of SpecNumber: the vectors and every string of at most
\* MaxChars characters whose value the fixed-point representation holds
Arguments ==
    Vectors \cup
    {cs \in UNION {[1..k -> NumberChars] : k \in 0..MaxChars} :
        DigitsValue(DigitsOf(cs)) <= MaxWhole}

InitNumber == \E a \in Arguments : StartCall("_parse_number", a)

\* self._parse_number(num_str): the value returned, or ValueError raised
ParseNumber ==
    /\ pc = "call"
    /\ entry = "_parse_number"
    /\ ret' = _parse_number(arg)
    /\ pc' = "done"
    /\ UNCHANGED <<doc, entry, pos, holdings, processed, warnings,
                   isin_candidates, valid_isins, warned_no_date, cash, arg>>
    /\ UNCHANGED <<callVars, snapVars, ingestVars>>

NextNumber == ParseNumber

SpecNumber == InitNumber /\ [][NextNumber]_vars

\* str.isdigit() is true of the decimal digits and of the superscript
\* digits, of which int() takes only the first
IsDigitChars == Digits \cup {"²"}

\* is_valid_isin reaches int(digit_char) with a character that is no decimal
\* digit: the string passed every format check, which accept what isdigit()
\* accepts
IntRaises(isin) ==
    /\ Len(isin) = 12
    /\ isin[1] \in UpperLetters /\ isin[2] \in UpperLetters
    /\ isin[12] \in IsDigitChars
    /\ \A k \in 3..11 : isin[k] \in IsDigitChars \cup UpperLetters
    /\ \E k \in 3..12 : isin[k] \notin Digits \cup UpperLetters

\* a call is_valid_isin(isin): "True", "False" or the exception that leaves it
IsinCall(isin) ==
    IF IntRaises(isin) THEN "ValueError"
    ELSE IF is_valid_isin(isin) THEN "True" ELSE "False"

\* ISINs of the test vectors
KnownIsins ==
    {<<"D","E","0","0","0","5","1","4","0","0","0","8">>,
     <<"U","S","0","3","7","8","3","3","1","0","0","5">>,
     <<"I","E","0","0","B","4","L","5","Y","9","8","3">>}

\* the characters written over a character of an ISIN: the digits, letters
\* in both cases, a superscript digit and a hyphen
IsinChars == Digits \cup {"A", "Z", "a", "²", "-"}

\* the strings handed to is_valid_isin: a known ISIN with one character and
\* its check character overwritten, cut to 11 characters or grown to 13, and
\* the street name of the test vectors
IsinArguments ==
    {[[b EXCEPT ![p] = c] EXCEPT ![12] = d] :
        b \in KnownIsins, p \in 1..12, c \in IsinChars, d \in IsinChars}
    \cup {SubSeq(b, 1, 11) : b \in KnownIsins}
    \cup {b \o <<c>> : b \in KnownIsins, c \in Digits}
    \cup {<<>>, <<"B","R","U","N","N","E","N","S","T","R","A","S">>}

InitIsin == \E a \in IsinArguments : StartCall("is_valid_isin", a)

\* is_valid_isin(isin): True, False, or ValueError raised by int()
CheckIsin ==
    /\ pc = "call"
    /\ entry = "is_valid_isin"
    /\ ret' = IsinCall(arg)
    /\ pc' = "done"
    /\ UNCHANGED <<doc, entry, pos, holdings, processed, warnings,
                   isin_candidates, valid_isins, warned_no_date, cash, arg>>
    /\ UNCHANGED <<callVars, snapVars, ingestVars>>

NextIsin == CheckIsin

SpecIsin == InitIsin /\ [][NextIsin]_vars

-----------------------------------------------------------------------------
(* The vocabulary of the properties *)

Holdings == 1..Len(holdings)

\* the warnings recorded so far, as a set
WarningSet == {warnings[k] : k \in 1..Len(warnings)}

\* the ISIN-shaped candidates of the searched lines, in the order of the scan
RECURSIVE CandidatesOn(_, _)
CandidatesOn(lines, search) ==
    IF search = <<>> THEN <<>>
    ELSE IsinCandidates(Text[lines[Head(search)]]) \o CandidatesOn(lines, Tail(search))

\* the candidates that give no holding: the checksum fails, or the same ISIN
\* stood earlier in the scan
Rejected(cands) ==
    {k \in 1..Len(cands) :
        \/ ~is_valid_isin(cands[k])
        \/ \E j \in 1..(k - 1) : cands[j] = cands[k]}

\* the quantity-marker lines of the document: the row anchors
QtyMarkerLines == {i \in 1..Len(doc) : IsQtyLine(doc[i])}

\* the row of line i: the number of the last quantity-marker line at or above it
RowOf(i) == Cardinality({a \in QtyMarkerLines : a <= i})

\* the last line of the row that the quantity-marker line a starts
RowEnd(a) ==
    IF \E b \in QtyMarkerLines : b > a
    THEN Least({b \in QtyMarkerLines : b > a}) - 1
    ELSE Len(doc)

\* the row of the quantity-marker line a holds a checksum-valid ISIN
RowHasValidIsin(a) ==
    \E i \in a..RowEnd(a) :
        \E k \in 1..Len(IsinCandidates(Text[doc[i]])) :
            is_valid_isin(IsinCandidates(Text[doc[i]])[k])

\* the lines that contain the column header KURSWERT IN EUR
HeaderLines ==
    {i \in 1..Len(doc) : HasKurswertHeader(LineStream(Text[doc[i]], i))}

\* the market value of a holding, None for market_data null
MarketValue(h) ==
    IF h.market_data = <<>> THEN None ELSE h.market_data[1].market_value

-----------------------------------------------------------------------------
(* C1 *)

\* C1: every holding returned by parse or parse_holdings_table carries, as isin
\* and as security_id, an ISIN for which is_valid_isin is true; a candidate of
\* the shape of an ISIN that fails the checksum is never the ISIN of a holding,
\* on whatever line of the document it stands.
C1_ValidIsin ==
    \A i \in Holdings :
        /\ is_valid_isin(holdings[i].isin)
        /\ holdings[i].security_id = holdings[i].isin

\* a call has returned a holding from a document in which the scan also met a
\* candidate that fails the checksum
C1_Witness ==
    /\ Returned
    /\ holdings # <<>>
    /\ \E k \in 1..Len(CandidatesOn(doc, SearchLines(doc))) :
          ~is_valid_isin(CandidatesOn(doc, SearchLines(doc))[k])

-----------------------------------------------------------------------------
(* C2 *)

\* C2 as stated: the number of holdings is at most the number of
\* quantity-marker lines, the difference is the number of quantity-marker rows
\* without a checksum-valid ISIN, and every holding has a quantity-marker line
\* of its own.
C2_RowCount ==
    Returned =>
        /\ Len(holdings) <= Cardinality(QtyMarkerLines)
        /\ Cardinality(QtyMarkerLines) - Len(holdings)
              = Cardinality({a \in QtyMarkerLines : ~RowHasValidIsin(a)})
        /\ \A i \in Holdings :
              \E a \in QtyMarkerLines :
                  a <= holdings[i].meta.isin_line /\ holdings[i].meta.isin_line <= RowEnd(a)

\* C2 amended: the number of holdings is at most the number of ISIN-shaped
\* candidates on the searched lines, and the difference is the number of
\* candidates rejected (checksum failed, or the ISIN already gave a holding);
\* quantity-marker lines do not enter the count.
C2_CandidateCount ==
    Returned =>
        /\ Len(holdings) <= Len(CandidatesOn(doc, SearchLines(doc)))
        /\ Len(CandidatesOn(doc, SearchLines(doc))) - Len(holdings)
              = Cardinality(Rejected(CandidatesOn(doc, SearchLines(doc))))

\* a document without any quantity-marker line gives a holding, and a candidate
\* of it is rejected
C2_Witness ==
    /\ Returned
    /\ holdings # <<>>
    /\ QtyMarkerLines = {}
    /\ Rejected(CandidatesOn(doc, SearchLines(doc))) # {}

-----------------------------------------------------------------------------
(* C3 *)

\* C3: in a document with two or more holdings, a market value that is not null
\* was read from a line of the holding's own row (the row of its ISIN line),
\* never from a line of the row before or after, also without a blank line
\* between the rows.
C3_OwnRow ==
    (Returned /\ Len(holdings) >= 2) =>
        \A i \in Holdings :
            holdings[i].market_data # <<>> =>
                RowOf(holdings[i].meta.mv_line) = RowOf(holdings[i].meta.isin_line)

-----------------------------------------------------------------------------
(* C4 *)

\* the date lines of a holding's own row that a value line follows: below its
\* ISIN line, before the next quantity-marker line and the next ISIN label
OwnDateLines(h) ==
    {j \in (h.meta.isin_line + 1)..(Len(doc) - 1) :
        /\ IsDateLine(doc[j])
        /\ LineMoney(Text[doc[j + 1]], j + 1) # <<>>
        /\ \A k \in (h.meta.isin_line + 1)..(j + 1) :
              ~IsQtyLine(doc[k]) /\ ~IsIsinLabelLine(doc[k])}

\* the value on the line after the holding's own date
ValueAfterOwnDate(h) ==
    LineMoney(Text[doc[Least(OwnDateLines(h)) + 1]], Least(OwnDateLines(h)) + 1)[1].value

\* the header once, before the first row, and two holdings, each in the row of
\* its own quantity-marker line, with a date line and a value line after it
TableLayoutDocument ==
    /\ HeaderLines = {1}
    /\ Len(holdings) = 2
    /\ \A i \in Holdings : RowOf(holdings[i].meta.isin_line) = i
    /\ \A i \in Holdings : OwnDateLines(holdings[i]) # {}

\* C4: in a table layout with the header once before the first row and two
\* holdings with a date line and a value line each, both holdings get a market
\* value, the value after their own date.
C4_TableLayout ==
    (Returned /\ TableLayoutDocument) =>
        \A i \in Holdings :
            /\ holdings[i].market_data # <<>>
            /\ MarketValue(holdings[i]) = ValueAfterOwnDate(holdings[i])

-----------------------------------------------------------------------------
(* C5 *)

\* the numbers of a block that follow a label Wert, Kurswert, Gesamtwert or
\* Value and are followed by a currency code, and the numbers with a currency
\* code on a line that has such a label
LabelledValues(h) ==
    LET st == Stream(doc, h.meta.first, h.meta.last)
    IN  {RunValue(st, p + 1, RunEnd(st, p + 1)) :
            p \in {q \in 1..(Len(st) - 2) :
                      /\ IsWord(st[q].tok) /\ st[q].tok.w \in WertLineWords
                      /\ StartsNumber(st, q + 1)
                      /\ RunEnd(st, q + 1) + 1 <= Len(st)
                      /\ IsWord(st[RunEnd(st, q + 1) + 1].tok)
                      /\ st[RunEnd(st, q + 1) + 1].tok.w \in CurrencyWords}}
        \cup {LineValue(Text[doc[j]], j) :
                j \in {k \in h.meta.first..h.meta.last :
                          HasWordIn(Text[doc[k]], WertLineWords)}}

\* C5 as stated: without a line with the header KURSWERT IN EUR, every holding
\* has market_data null.
C5_NoHeaderNull ==
    (Returned /\ HeaderLines = {}) =>
        \A i \in Holdings : holdings[i].market_data = <<>>

\* C5 amended: without a line with the header, no market value comes from the
\* rules of the column (the number after the date, the largest number); a
\* market value that is not null is a number of the holding's block that stands
\* with a label Wert, Kurswert, Gesamtwert or Value and a currency code.
C5_LabelledOnly ==
    (Returned /\ HeaderLines = {}) =>
        \A i \in Holdings :
            holdings[i].market_data # <<>> =>
                /\ MarketValue(holdings[i]) \in LabelledValues(holdings[i])
                /\ holdings[i].meta.mv_method \in {"labeled-pattern", "wert-line"}

\* without the header, a holding has the value of its labelled line, and the
\* document also has a line with a bare amount
C5_Witness ==
    /\ Returned
    /\ HeaderLines = {}
    /\ \E i \in Holdings : holdings[i].market_data # <<>>
    /\ \E j \in 1..Len(doc) : doc[j] = "m250"

-----------------------------------------------------------------------------
(* C6 *)

\* the warnings that concern the market value or its column
ColumnWarnings ==
    {k \in 1..Len(warnings) : warnings[k].kind \in {"market_value", "no_date"}}

\* C6: without a line with the header KURSWERT IN EUR, the warnings that parse
\* returns with its holdings hold exactly one warning about the missing
\* market-value column, whatever the number of holdings.
C6_OneColumnWarning ==
    (Returned /\ entry = "parse" /\ holdings # <<>> /\ HeaderLines = {}) =>
        Cardinality(ColumnWarnings) = 1

-----------------------------------------------------------------------------
(* C7 *)

\* the numbers that stand on line i
NumbersOn(i) ==
    {_parse_number(Text[doc[i]][k].c) :
        k \in {j \in 1..Len(Text[doc[i]]) : IsSpelled(Text[doc[i]][j])}}

\* C7: a market value is never read from a line that matches the quantity
\* pattern, by the rules of the column and by the labelled rules alike: it is a
\* number of a line of the document that is no quantity line.
C7_NotFromQuantityLine ==
    \A i \in Holdings :
        holdings[i].market_data # <<>> =>
            /\ holdings[i].meta.mv_line \in 1..Len(doc)
            /\ ~IsQtyLine(doc[holdings[i].meta.mv_line])
            /\ MarketValue(holdings[i]) \in NumbersOn(holdings[i].meta.mv_line)

\* a holding whose block has a quantity line and two amounts after the date
\* line has the larger of the two as its market value
C7_Witness ==
    /\ Returned
    /\ \E i \in Holdings :
          /\ holdings[i].meta.mv_method = "largest-after-date"
          /\ \E j \in holdings[i].meta.first..holdings[i].meta.last : IsQtyLine(doc[j])
          /\ holdings[i].market_data # <<>>
          /\ MarketValue(holdings[i]) # holdings[i].quantity

-----------------------------------------------------------------------------
(* C8 *)

\* C8: a holding with quantity null has a warning for the quantity that names
\* its ISIN, a holding with market_data null has a warning for the market value
\* that names its ISIN, and every checksum-valid candidate of the lines scanned
\* so far has its holding, whatever is missing in it.
C8_NullIsWarned ==
    /\ \A i \in Holdings :
          /\ holdings[i].quantity = None =>
                Warning("quantity", holdings[i].isin) \in WarningSet
          /\ holdings[i].market_data = <<>> =>
                Warning("market_value", holdings[i].isin) \in WarningSet
    /\ pc \in {"scan", "returned"} =>
          \A k \in 1..Len(CandidatesOn(doc, SubSeq(SearchLines(doc), 1, pos - 1))) :
              is_valid_isin(CandidatesOn(doc, SubSeq(SearchLines(doc), 1, pos - 1))[k]) =>
                  \E i \in Holdings :
                      holdings[i].isin
                          = CandidatesOn(doc, SubSeq(SearchLines(doc), 1, pos - 1))[k]

\* a holding without name, quantity and market value is returned with its three
\* warnings
C8_Witness ==
    /\ Returned
    /\ \E i \in Holdings :
          /\ holdings[i].name.placeholder
          /\ holdings[i].quantity = None
          /\ holdings[i].market_data = <<>>
          /\ {Warning("name", holdings[i].isin), Warning("quantity", holdings[i].isin),
              Warning("market_value", holdings[i].isin)} \subseteq WarningSet

-----------------------------------------------------------------------------
(* C9 *)

\* the quantity-marker lines of a holding's own row: at or above its ISIN line
\* with no other ISIN label between
OwnQtyLines(h) ==
    {a \in QtyMarkerLines :
        /\ a <= h.meta.isin_line
        /\ \A k \in a..(h.meta.isin_line - 1) : ~IsIsinLabelLine(doc[k])}

\* the number on a quantity-marker line
QtyNumber(a) == _parse_number(Text[doc[a]][1].c)

\* C9: the quantity is the number on the holding's own quantity-marker line;
\* when that number is zero or does not parse the quantity is null and a
\* warning is recorded, and no number of another line takes its place.
C9_OwnQuantityLine ==
    Returned =>
        \A i \in Holdings :
            OwnQtyLines(holdings[i]) # {} =>
                IF Positive(QtyNumber(Greatest(OwnQtyLines(holdings[i]))))
                THEN holdings[i].quantity = QtyNumber(Greatest(OwnQtyLines(holdings[i])))
                ELSE /\ holdings[i].quantity = None
                     /\ Warning("quantity", holdings[i].isin) \in WarningSet

-----------------------------------------------------------------------------
(* C10 *)

\* C10: every holding has a name that is not empty: the placeholder
\* 'Unknown (<isin>)' with the holding's own ISIN and a warning for the name,
\* or the text of a line that is not blank and does not contain 'ISIN'.
C10_NameOrPlaceholder ==
    \A i \in Holdings :
        IF holdings[i].name.placeholder
        THEN /\ holdings[i].name.text = "Unknown"
             /\ holdings[i].name.isin = holdings[i].isin
             /\ Warning("name", holdings[i].isin) \in WarningSet
        ELSE /\ ~IsBlank(holdings[i].name.text)
             /\ ~ContainsIsinText(holdings[i].name.text)

\* the line above the ISIN line survives the exclusions and contains 'ISIN': the
\* holding is returned with the placeholder and the warning
C10_Witness ==
    /\ Returned
    /\ \E i \in Holdings :
          /\ holdings[i].meta.isin_line > 1
          /\ doc[holdings[i].meta.isin_line - 1] = "raisin"
          /\ holdings[i].name.placeholder
          /\ Warning("name", holdings[i].isin) \in WarningSet


C12_NoCarriedState ==
    (ReturnedTwice /\ shared) =>
        /\ holdings = first_result.holdings
        /\ warnings = first_result.warnings
        /\ FirstWarningsNow = first_result.warnings

\* C13: when the extracted text without its surrounding whitespace has fewer
\* than 100 characters, parse raises IngestError before any holdings or cash
\* parsing: the call never reaches the scan nor a result, nothing is appended
\* to the warnings, and no holding, candidate count or cash item exists; a
\* text of 100 characters or more is never refused.
C13_ScannedRaises ==
    /\ (entry = "parse" /\ StrippedLen(doc) < 100) =>
           /\ pc \in {"start", "raised"}
           /\ holdings = <<>> /\ warnings = <<>> /\ cash = <<>>
           /\ isin_candidates = 0 /\ valid_isins = 0 /\ pos = 1
           /\ snapshot = <<>>
    /\ pc = "raised" => (entry = "parse" /\ StrippedLen(doc) < 100)

\* parse has raised on a text of 99 characters that follows a blank line
C13_Witness ==
    /\ pc = "raised"
    /\ StrippedLen(doc) = 99
    /\ doc # <<>> /\ doc[1] = "blank"

CashLines ==
    {i \in 1..Len(doc) :
        /\ HasWordIn(Text[doc[i]], CashWords)
        /\ \E k \in 1..Len(Text[doc[i]]) :
              IsSpelled(Text[doc[i]][k]) /\ CountDigits(Text[doc[i]][k].c) > 0}

\* the amount and the currency written on the cash lines of the documents
WrittenCash(id) ==
    IF id = "guthaben" THEN [amount |-> 500 * Scale, currency |-> "EUR"]
    ELSE [amount |-> 12 * Scale + Scale \div 2, currency |-> "USD"]

SnapshotValue(i) ==
    IF snapshot.holdings[i].market_data = <<>> THEN 0
    ELSE snapshot.holdings[i].market_data[1].market_value

\* the sum of f over 1..n
RECURSIVE SumTo(_, _)
SumTo(f, n) == IF n = 0 THEN 0 ELSE SumTo(f, n - 1) + f[n]

\* C19: create_canonical_snapshot computes the totals from its output
\* holdings and cash: total_market_value is the sum of the holdings' market
\* values, a holding without market data counting 0, total_cash is the sum
\* of the cash amounts and total_portfolio_value is the sum of the two; the
\* snapshot has as many holdings as the parsed data, in the same order, each
\* with account_id 'trade_republic_<account_name>'.
C19_SnapshotTotals ==
    SnapshotCreated =>
        /\ snapshot.totals.total_market_value =
               SumTo([i \in 1..Len(snapshot.holdings) |-> SnapshotValue(i)],
                     Len(snapshot.holdings))
        /\ snapshot.totals.total_cash =
               SumTo([i \in 1..Len(snapshot.cash) |-> snapshot.cash[i].amount],
                     Len(snapshot.cash))
        /\ snapshot.totals.total_portfolio_value =
               snapshot.totals.total_market_value + snapshot.totals.total_cash
        /\ Len(snapshot.holdings) = Len(first_result.holdings)
        /\ \A i \in 1..Len(snapshot.holdings) :
              /\ snapshot.holdings[i].isin = first_result.holdings[i].isin
              /\ snapshot.holdings[i].quantity = first_result.holdings[i].quantity
              /\ snapshot.holdings[i].account_id = <<"trade_republic_", account_name>>

\* a snapshot for the account 'main' of two holdings, one of them without
\* market data, and a cash item
C19_Witness ==
    /\ SnapshotCreated
    /\ account_name = "main"
    /\ Len(snapshot.holdings) = 2
    /\ snapshot.holdings[1].market_data # <<>>
    /\ snapshot.holdings[2].market_data = <<>>
    /\ snapshot.cash # <<>>
    /\ snapshot.totals.total_cash > 0

\* C20: create_canonical_snapshot leaves the parsed data it receives as it
\* was before the call: every holding dict, the market_data dict of every
\* holding and every cash item.
C20_ParsedDataUnchanged ==
    SnapshotCreated =>
        /\ holdings = first_result.holdings
        /\ cash = first_result.cash
        /\ warnings = first_result.warnings

\* _parse_number has returned or raised on the token arg
NumberParsed == Done /\ entry = "_parse_number"

\* the position of the rightmost separator of a token
RightmostSeparator(cs) ==
    IF RFind(cs, ",") > RFind(cs, ".") THEN RFind(cs, ",") ELSE RFind(cs, ".")

\* a token of digits and separators, with a digit, in one of the three cases:
\* both separators with the rightmost one occurring once, one comma and no
\* dot, several dots and no comma
Disambiguated(cs) ==
    /\ \A k \in 1..Len(cs) : cs[k] \in Digits \cup {",", "."}
    /\ DigitsOf(cs) # <<>>
    /\ \/ /\ CountChar(cs, ",") > 0 /\ CountChar(cs, ".") > 0
          /\ CountChar(cs, cs[RightmostSeparator(cs)]) = 1
       \/ CountChar(cs, ",") = 1 /\ CountChar(cs, ".") = 0
       \/ CountChar(cs, ".") > 1 /\ CountChar(cs, ",") = 0

\* the number a token reads as when the separator at position point is its
\* decimal point and every other separator is dropped: its digits as one
\* integer, shifted by the decimal places that are not written
ReadWithPointAt(cs, point) ==
    DigitsValue(DigitsOf(cs))
    * 10 ^ (ScaleDigits - Len(DigitsOf(SubSeq(cs, point + 1, Len(cs)))))

\* C15: _parse_number takes the rightmost separator for the decimal point
\* and strips the other when both '.' and ',' occur, takes a single ','
\* for the decimal point, and with several '.' and no ',' strips all but the
\* last '.'; so '1.234,56' and '1,234.56' give 1234.56, '12,345678' gives
\* 12.345678 and '474,155346' gives 474.155346.
C15_Disambiguation ==
    NumberParsed =>
        /\ Disambiguated(arg) => ret = ReadWithPointAt(arg, RightmostSeparator(arg))
        /\ arg = <<"1", ".", "2", "3", "4", ",", "5", "6">> => ret = 1234560000
        /\ arg = <<"1", ",", "2", "3", "4", ".", "5", "6">> => ret = 1234560000
        /\ arg = <<"1", "2", ",", "3", "4", "5", "6", "7", "8">> => ret = 12345678
        /\ arg = <<"4", "7", "4", ",", "1", "5", "5", "3", "4", "6">>
              => ret = 474155346

\* _parse_number has returned 1.5 for a token with a thousands dot before
\* its decimal comma
C15_Witness ==
    /\ NumberParsed
    /\ Disambiguated(arg)
    /\ CountChar(arg, ".") = 1 /\ RFind(arg, ",") > RFind(arg, ".")
    /\ ret = Scale + Scale \div 2

\* the token has a character that is no digit, separator, blank or line
\* break: a currency symbol, a unit, a percent sign
HasSymbol(cs) ==
    \E k \in 1..Len(cs) : cs[k] \notin Digits \cup {",", ".", " ", "\n"}

\* C16: _parse_number never raises: for every token it returns a number or
\* None; it returns None for the empty token, for a token without a digit
\* and for a token with a currency symbol or a unit suffix.
C16_NeverRaises ==
    NumberParsed =>
        /\ ret # ValueError
        /\ ret = None \/ ret >= 0
        /\ arg = <<>> => ret = None
        /\ DigitsOf(arg) = <<>> => ret = None
        /\ HasSymbol(arg) => ret = None

\* _parse_number has returned None for a token of digits, a separator and a
\* currency symbol
C16_Witness ==
    /\ NumberParsed
    /\ HasSymbol(arg)
    /\ DigitsOf(arg) # <<>>
    /\ CountChar(arg, ",") = 1
    /\ ret = None

\* is_valid_isin has returned or raised on the string arg
IsinChecked == Done /\ entry = "is_valid_isin"

\* 12 characters: two uppercase letters, nine digits or uppercase letters,
\* a digit
WellFormed(cs) ==
    /\ Len(cs) = 12
    /\ \A k \in 1..2 : cs[k] \in UpperLetters
    /\ \A k \in 3..11 : cs[k] \in Digits \cup UpperLetters
    /\ cs[12] \in Digits

\* the Luhn sum by hand, from the left: the digit at position j of n digits
\* is doubled when n - j is odd, and a doubled digit above 9 loses 9
ManualLuhn(ds) ==
    SumTo([j \in 1..Len(ds) |->
              IF ((Len(ds) - j) % 2) = 1
              THEN (IF ds[j] > 4 THEN 2 * ds[j] - 9 ELSE 2 * ds[j])
              ELSE ds[j]],
          Len(ds))

\* C17: is_valid_isin(s) is true exactly when s has 12 characters, the first
\* two are uppercase letters, the middle nine are digits or uppercase
\* letters, the last is a digit and the Luhn sum is 0 mod 10; every other
\* string is rejected.
C17_ExactlyWellFormed ==
    IsinChecked =>
        ret = IF WellFormed(arg) /\ (ManualLuhn(DigitString(arg)) % 10) = 0
              THEN "True" ELSE "False"

\* C18: for every string is_valid_isin accepts, writing a different digit
\* over any one of its digits, the check digit among them, gives a string
\* it rejects; and of the ten check digits after an 11-character prefix of
\* valid format at most one is accepted.
C18_SingleDigitDetected ==
    IsinChecked =>
        /\ ret = "True" =>
               \A p \in 1..12 : \A d \in Digits :
                   (arg[p] \in Digits /\ d # arg[p])
                       => IsinCall([arg EXCEPT ![p] = d]) = "False"
        /\ WellFormed(arg) =>
               Cardinality({d \in Digits :
                               IsinCall([arg EXCEPT ![12] = d]) = "True"}) <= 1

\* is_valid_isin has accepted a string that is none of the known ISINs and
\* has a letter written over a digit
C18_Witness ==
    /\ IsinChecked
    /\ ret = "True"
    /\ arg \notin KnownIsins
    /\ \E p \in 3..11 : arg[p] = "Z"

-----------------------------------------------------------------------------
(* C23 *)

\* the block of the holding has the column header: the column-based rules
\* extract its market value
ColumnBased(h) == HasKurswertHeader(Stream(doc, h.meta.first, h.meta.last))

\* the date lines of the block of a holding
BlockDates(h) == {j \in h.meta.first..h.meta.last : IsDateLine(doc[j])}

\* the money-shaped candidates of the lines low..high of the block of a
\* holding, quantity-marker lines left out, each with its line
CandidatesIn(h, low, high) ==
    UNION {{LineMoney(Text[doc[j]], j)[k] : k \in 1..Len(LineMoney(Text[doc[j]], j))} :
              j \in {i \in Max(low, h.meta.first)..Min(high, h.meta.last) :
                        ~IsQtyLine(doc[i])}}

\* the candidates on the lines after the first date line of the block, up
\* to AfterDateReach lines after it
AfterDate(h) ==
    IF BlockDates(h) = {} THEN {}
    ELSE CandidatesIn(h, Least(BlockDates(h)) + 1,
                      Least(BlockDates(h)) + AfterDateReach)

\* the distance in lines of a candidate from the quantity-marker line of
\* the holding
AnchorDistance(c, h) ==
    IF c.line >= Greatest(OwnQtyLines(h))
    THEN c.line - Greatest(OwnQtyLines(h))
    ELSE Greatest(OwnQtyLines(h)) - c.line

\* a holding with a quantity-marker line, a date line and two or more
\* candidates after the date
TieBreakHolding(h) ==
    /\ ColumnBased(h)
    /\ OwnQtyLines(h) # {}
    /\ Cardinality(AfterDate(h)) >= 2

-----------------------------------------------------------------------------
(* C24 *)

\* the numbers that the date tokens of line i read as
DateNumbersOn(i) ==
    {_parse_number(Text[doc[i]][k].c) :
        k \in {t \in 1..Len(Text[doc[i]]) :
                  IsSpelled(Text[doc[i]][t]) /\ HasDateShape(Text[doc[i]][t].c)}}

\* C24: a date-shaped token never supplies the market value: in every path
\* of the column-based extractor the value returned is not the number a
\* date token of its line reads as, such as 1501.2026 for 15.01.2026.
C24_NoDateAsValue ==
    Returned =>
        \A i \in Holdings :
            (ColumnBased(holdings[i]) /\ MarketValue(holdings[i]) # None) =>
                MarketValue(holdings[i]) \notin DateNumbersOn(holdings[i].meta.mv_line)

-----------------------------------------------------------------------------
(* C25 *)

\* the lines of the first holding row and after: from the first
\* quantity-marker line or ISIN label line on
RowLines ==
    {i \in 1..Len(doc) :
        \E j \in 1..i : IsQtyLine(doc[j]) \/ IsIsinLabelLine(doc[j])}

\* the date lines of the head of the document, before the first row
HeaderDateLines == {j \in 1..Len(doc) : IsDateLine(doc[j]) /\ j \notin RowLines}

\* a holding of a document with a dated head, with a date line of its own
\* and one value after it
OwnDateHolding(h) ==
    /\ HeaderDateLines # {}
    /\ ColumnBased(h)
    /\ OwnDateLines(h) # {}
    /\ Cardinality(CandidatesIn(h, Least(OwnDateLines(h)) + 1, h.meta.last)) = 1

\* C25: a date in the head of the document, before the row of the first
\* holding, is no date anchor: the market value of the holding is the value
\* on the line after the date line of its own row.
C25_HeaderDateIgnored ==
    Returned =>
        \A i \in Holdings :
            OwnDateHolding(holdings[i]) =>
                MarketValue(holdings[i]) = ValueAfterOwnDate(holdings[i])

-----------------------------------------------------------------------------
(* C26 *)

\* the lines of the row of a holding: from the last quantity-marker line at
\* or above its ISIN line to the line before the next quantity-marker line
OwnRow(h) ==
    LET a == Greatest({q \in QtyMarkerLines : q <= h.meta.isin_line})
    IN  a..RowEnd(a)

\* the money-shaped candidates of the row of a holding, quantity-marker
\* lines left out
RowCandidates(h) ==
    UNION {{LineMoney(Text[doc[j]], j)[k] : k \in 1..Len(LineMoney(Text[doc[j]], j))} :
              j \in {i \in OwnRow(h) : ~IsQtyLine(doc[i])}}

\* the column header is declared and the row of the holding, with no ISIN
\* label line but its own, has money-shaped candidates and no date line
NoDateRow(h) ==
    /\ HeaderLines # {}
    /\ \E q \in QtyMarkerLines : q <= h.meta.isin_line
    /\ \A j \in OwnRow(h) : IsIsinLabelLine(doc[j]) => j = h.meta.isin_line
    /\ \A j \in OwnRow(h) : ~IsDateLine(doc[j])
    /\ RowCandidates(h) # {}

\* the warnings that the date-anchored rule could not be applied
NoDateWarnings == {k \in 1..Len(warnings) : warnings[k].kind = "no_date"}

\* C26: when the row of a holding has no date line and the market-value
\* column is declared, the market value is the largest money-shaped candidate
\* of that row and the warning that the date-anchored rule could not be
\* applied is recorded; with any number of such rows in the document the
\* warning stands exactly once in the warnings list.
C26_NoDateFallback ==
    Returned =>
        \A i \in Holdings :
            NoDateRow(holdings[i]) =>
                /\ \E c \in RowCandidates(holdings[i]) :
                      /\ MarketValue(holdings[i]) = c.value
                      /\ \A o \in RowCandidates(holdings[i]) : o.value <= c.value
                /\ Cardinality(NoDateWarnings) = 1

-----------------------------------------------------------------------------
(* C27 *)

\* the lines of the block from which a holding was extracted: block_lines
\* after the trim, as line numbers of the document
BlockLines(h) == h.meta.first..h.meta.last

\* C27: the blocks from which two different holdings of one document are
\* extracted are disjoint: no line, and so no quantity-marker line, name
\* line or value line, lies in the block of more than one holding.
C27_DisjointBlocks ==
    Returned =>
        \A i \in Holdings : \A j \in Holdings :
            i # j => BlockLines(holdings[i]) \cap BlockLines(holdings[j]) = {}

-----------------------------------------------------------------------------
(* C28 *)

\* the first line of the holdings section: the first line with POSITIONEN,
\* else the first line of the document
SectionStart ==
    IF \E i \in 1..Len(doc) : HasWordIn(Text[doc[i]], PositionenWords)
    THEN Least({i \in 1..Len(doc) : HasWordIn(Text[doc[i]], PositionenWords)})
    ELSE 1

\* the line at which the holdings section ends: the first line at or after
\* the start with GESAMT, TOTAL or Summe, else the line after the last
SectionEnd ==
    IF \E i \in SectionStart..Len(doc) : HasWordIn(Text[doc[i]], SectionEndWords)
    THEN Least({i \in SectionStart..Len(doc) : HasWordIn(Text[doc[i]], SectionEndWords)})
    ELSE Len(doc) + 1

\* line i lies in the holdings section and, when the document has lines
\* with the label ISIN, at most two lines from one of them
Eligible(i) ==
    /\ SectionStart <= i
    /\ i < SectionEnd
    /\ (\E l \in 1..Len(doc) : IsIsinLabelLine(doc[l])) =>
          \E l \in 1..Len(doc) :
              /\ IsIsinLabelLine(doc[l])
              /\ i - l <= 2
              /\ l - i <= 2

\* the lines on which the checksum-valid ISIN c stands
LinesOf(c) ==
    {i \in 1..Len(doc) :
        \E k \in 1..Len(IsinCandidates(Text[doc[i]])) : IsinCandidates(Text[doc[i]])[k] = c}

\* the checksum-valid ISINs of the document
ValidIsins ==
    {c \in UNION {{IsinCandidates(Text[doc[i]])[k] :
                      k \in 1..Len(IsinCandidates(Text[doc[i]]))} : i \in 1..Len(doc)} :
        is_valid_isin(c)}

\* the valid ISINs that stand on no eligible line
Excluded == {c \in ValidIsins : \A i \in LinesOf(c) : ~Eligible(i)}

\* C28: a holding comes only from an ISIN line that lies in the holdings
\* section and, when the document has ISIN label lines, within two lines of
\* one; a valid ISIN that stands on other lines only gives no holding, and
\* no warning is recorded for it.
C28_SectionAndLabel ==
    Returned =>
        /\ \A i \in Holdings :
              /\ holdings[i].meta.isin_line \in LinesOf(holdings[i].isin)
              /\ Eligible(holdings[i].meta.isin_line)
        /\ \A c \in Excluded :
              /\ \A i \in Holdings : holdings[i].isin # c
              /\ \A k \in 1..Len(warnings) : warnings[k].isin # c

\* a document with a holding and with a valid ISIN outside the section or
\* away from the labels
C28_Witness ==
    /\ Returned
    /\ holdings # <<>>
    /\ Excluded # {}

-----------------------------------------------------------------------------
(* C29 *)

\* the line on which the ISIN c is validated first: the first eligible line
\* that carries it
FirstValidated(c) == Least({i \in LinesOf(c) : Eligible(i)})

\* C29: after parse_holdings_table on a fresh parser the holdings have
\* pairwise distinct ISINs and stand in the order of the lines on which
\* their ISINs were first validated; len(holdings) = valid_isins <=
\* isin_candidates; a later line with an ISIN already processed adds no
\* holding: there is one holding for each valid ISIN of the eligible lines.
C29_DistinctOrdered ==
    Returned =>
        /\ \A i \in Holdings : \A j \in Holdings :
              i # j => holdings[i].isin # holdings[j].isin
        /\ \A i \in Holdings :
              holdings[i].meta.isin_line = FirstValidated(holdings[i].isin)
        /\ \A i \in Holdings : \A j \in Holdings :
              i < j => holdings[i].meta.isin_line <= holdings[j].meta.isin_line
        /\ Len(holdings) = valid_isins
        /\ valid_isins <= isin_candidates
        /\ Len(holdings) = Cardinality(ValidIsins \ Excluded)

\* two holdings in the order of their lines, and a later line that repeats
\* the ISIN of the first and adds nothing
C29_Witness ==
    /\ Returned
    /\ Len(holdings) = 2
    /\ \E l \in LinesOf(holdings[1].isin) :
          Eligible(l) /\ l > holdings[2].meta.isin_line
    /\ valid_isins < isin_candidates

-----------------------------------------------------------------------------
(* C30 *)

\* the kinds of the files written so far, in the order of their writing
RECURSIVE Kinds(_)
Kinds(fs) == IF fs = <<>> THEN <<>> ELSE <<Head(fs).kind>> \o Kinds(Tail(fs))

\* the order of the writes of ingest_pdf
WriteOrder == <<"raw", "snapshot", "latest", "csv">>

\* the files that the call was asked to write
Requested ==
    IF request.export_csv THEN {"raw", "snapshot", "latest", "csv"}
    ELSE {"raw", "snapshot", "latest"}

\* C30: ingest_pdf parses, copies the raw PDF, writes the snapshot, writes
\* latest.json and writes the CSV, in this order; with a path that does not
\* exist or is no .pdf, and when parse raises IngestError, no file is
\* written; latest.json is written only after the snapshot file that it
\* names; result['success'] is true only after all requested files were
\* written, and then result['holdings_count'] is the number of parsed
\* holdings.
C30_StepOrder ==
    /\ Len(files) <= Len(WriteOrder)
    /\ Kinds(files) = SubSeq(WriteOrder, 1, Len(files))
    /\ files # <<>> => pc \notin {"ingest", "start", "scan"}
    /\ (~request.exists \/ Lower(request.suffix) # ".pdf" \/ detect_scanned_pdf(doc))
          => files = <<>>
    /\ \A k \in 1..Len(files) :
          files[k].kind = "latest" =>
              \E j \in 1..(k - 1) :
                  /\ files[j].kind = "snapshot"
                  /\ files[j].complete
                  /\ files[j].id = files[k].id
    /\ result.success =>
          /\ \A kind \in Requested :
                \E k \in 1..Len(files) : files[k].kind = kind /\ files[k].complete
          /\ result.holdings_count = Len(holdings)

\* ingest_pdf has returned success with the four files written for a
\* document of two holdings
C30_Witness ==
    /\ Ingested
    /\ result.success
    /\ request.export_csv
    /\ Len(files) = 4
    /\ result.holdings_count = 2

(***************************************************************************)
(* explain.py: run_explanation on two snapshots                            *)
(***************************************************************************)

\* abs()
Abs(x) == IF x < 0 THEN 0 - x ELSE x

\* 0.01 and 0.0001 in the fixed-point representation
Cent == Scale \div 100
QuantityTolerance == Scale \div 10000
\* a residual above 0.5% of the delta is large: one part in 200
ResidualShare == 200

\* build_holding_key: account_id::isin, else account_id::security_id, else
\* account_id::unknown::<index>; a missing ISIN or security_id is ""
build_holding_key(holding, index) ==
    IF holding.isin # "" THEN <<holding.account_id, holding.isin>>
    ELSE IF holding.security_id # "" THEN <<holding.account_id, holding.security_id>>
    ELSE <<holding.account_id, "unknown", index>>

\* the warnings of build_holding_key for the holdings of one snapshot
RECURSIVE KeyWarnings(_, _)
KeyWarnings(hs, index) ==
    IF hs = <<>> THEN <<>>
    ELSE (IF Head(hs).isin # "" THEN <<>>
          ELSE IF Head(hs).security_id # ""
               THEN <<[kind |-> "missing_isin", key |-> build_holding_key(Head(hs), index)]>>
               ELSE <<[kind |-> "index_key", key |-> build_holding_key(Head(hs), index)]>>)
         \o KeyWarnings(Tail(hs), index + 1)

\* extract_market_value: None without market_data
extract_market_value(holding) ==
    IF holding.market_data = <<>> THEN None ELSE holding.market_data[1].market_value

\* holdings_X_map: a later holding with the same key replaces an earlier one
HoldingsMap(hs) ==
    [key \in {build_holding_key(hs[i], i - 1) : i \in 1..Len(hs)} |->
        hs[Greatest({i \in 1..Len(hs) : build_holding_key(hs[i], i - 1) = key})]]

\* holdings_total: the market values that are not None, over the list
RECURSIVE HoldingsTotal(_)
HoldingsTotal(hs) ==
    IF hs = <<>> THEN 0
    ELSE (IF extract_market_value(Head(hs)) = None THEN 0
          ELSE extract_market_value(Head(hs)))
         + HoldingsTotal(Tail(hs))

\* cash_total
RECURSIVE CashTotal(_)
CashTotal(items) ==
    IF items = <<>> THEN 0 ELSE Head(items).amount + CashTotal(Tail(items))

\* computed_total of compute_portfolio_total
ComputedTotal(snap) == HoldingsTotal(snap.holdings) + CashTotal(snap.cash)

\* compute_portfolio_total: the total of the snapshot when it is within 0.01
\* of the computed total, else the computed total, with a warning
compute_portfolio_total(snap) ==
    IF snap.total = <<>>
    THEN [total |-> ComputedTotal(snap), source |-> "recomputed", warnings |-> <<>>]
    ELSE IF Abs(snap.total[1] - ComputedTotal(snap)) < Cent
         THEN [total |-> snap.total[1], source |-> "from_snapshot", warnings |-> <<>>]
         ELSE [total |-> ComputedTotal(snap), source |-> "recomputed",
               warnings |-> <<[kind |-> "total_differs", key |-> <<>>]>>]

\* "mv or 0.0"
OrZero(mv) == IF mv = None THEN 0 ELSE mv

\* a driver of a holding key; mv_A and mv_B are None where details has no
\* such entry
Driver(type, key, contribution, mv_A, mv_B, warns) ==
    [driver |-> [type |-> type, key |-> key, contribution_abs |-> contribution,
                 mv_A |-> mv_A, mv_B |-> mv_B],
     warnings |-> warns]

\* the classification with exact equality of the quantities
ClassifyExact(quantity_A, quantity_B) ==
    IF quantity_B - quantity_A = 0 THEN "price_change" ELSE "quantity_change"

\* "if abs(quantity_delta) < 0.0001" of classify_driver
Classify(quantity_A, quantity_B) ==
    IF Abs(quantity_B - quantity_A) < QuantityTolerance
    THEN "price_change" ELSE "quantity_change"

\* classify_driver; a holding that is None is <<>>, else <<holding>>
classify_driver(key, holding_A, holding_B) ==
    IF holding_A = <<>>
    THEN Driver("new_position", key, OrZero(extract_market_value(holding_B[1])),
                None, OrZero(extract_market_value(holding_B[1])),
                IF extract_market_value(holding_B[1]) = None
                THEN <<[kind |-> "new_missing_value", key |-> key]>> ELSE <<>>)
    ELSE IF holding_B = <<>>
    THEN Driver("position_removed", key,
                0 - OrZero(extract_market_value(holding_A[1])),
                OrZero(extract_market_value(holding_A[1])), None,
                IF extract_market_value(holding_A[1]) = None
                THEN <<[kind |-> "removed_missing_value", key |-> key]>> ELSE <<>>)
    ELSE LET mv_A == OrZero(extract_market_value(holding_A[1]))
             mv_B == OrZero(extract_market_value(holding_B[1]))
             missing == IF \/ extract_market_value(holding_A[1]) = None
                           \/ extract_market_value(holding_B[1]) = None
                        THEN <<[kind |-> "missing_value", key |-> key]>> ELSE <<>>
         IN  IF holding_A[1].quantity # None /\ holding_B[1].quantity # None
             THEN Driver(Classify(holding_A[1].quantity, holding_B[1].quantity),
                         key, mv_B - mv_A, mv_A, mv_B, missing)
             ELSE Driver("price_change", key, mv_B - mv_A, mv_A, mv_B,
                         missing \o <<[kind |-> "missing_quantity", key |-> key]>>)

\* cash_X_map: (account_id, currency) -> amount, the last item of a key
CashMap(items) ==
    [key \in {<<items[i].account_id, items[i].currency>> : i \in 1..Len(items)} |->
        items[Greatest({i \in 1..Len(items) :
                           <<items[i].account_id, items[i].currency>> = key})].amount]

\* cash_X_map.get(key, 0.0)
CashOf(map, key) == IF key \in DOMAIN map THEN map[key] ELSE 0

\* compute_cash_changes, the keys taken in the given order
RECURSIVE CashDrivers(_, _, _)
CashDrivers(order, map_A, map_B) ==
    IF order = <<>> THEN <<>>
    ELSE (IF Abs(CashOf(map_B, Head(order)) - CashOf(map_A, Head(order))) > Cent
          THEN <<[type |-> "cash_change", key |-> Head(order),
                  contribution_abs |-> CashOf(map_B, Head(order)) - CashOf(map_A, Head(order)),
                  mv_A |-> None, mv_B |-> None]>>
          ELSE <<>>)
         \o CashDrivers(Tail(order), map_A, map_B)

\* the orders in which the iteration over a set may take its elements
Orders(set) ==
    {order \in [1..Cardinality(set) -> set] :
        \A i \in 1..Cardinality(set) : \A j \in 1..Cardinality(set) :
            i # j => order[i] # order[j]}

\* dict.get(key): None is <<>>
Lookup(map, key) == IF key \in DOMAIN map THEN <<map[key]>> ELSE <<>>

\* "for key in all_keys": the drivers and the warnings of classify_driver
RECURSIVE Classified(_, _, _)
Classified(order, map_A, map_B) ==
    IF order = <<>> THEN <<>>
    ELSE <<classify_driver(Head(order), Lookup(map_A, Head(order)),
                           Lookup(map_B, Head(order)))>>
         \o Classified(Tail(order), map_A, map_B)

RECURSIVE DriversOf(_)
DriversOf(cs) == IF cs = <<>> THEN <<>> ELSE <<Head(cs).driver>> \o DriversOf(Tail(cs))

RECURSIVE WarningsOf(_)
WarningsOf(cs) == IF cs = <<>> THEN <<>> ELSE Head(cs).warnings \o WarningsOf(Tail(cs))

\* details.get('mv_A') == 0.0 or details.get('mv_B') == 0.0
MissingMarketValue(driver) == driver.mv_A = 0 \/ driver.mv_B = 0

\* sum(d['contribution_abs'] for d in drivers)
RECURSIVE SumContributions(_)
SumContributions(ds) ==
    IF ds = <<>> THEN 0 ELSE Head(ds).contribution_abs + SumContributions(Tail(ds))

\* a residual that is left at zero
NoResidual(portfolio_delta, explained_sum) == 0

\* residual = portfolio_delta - explained_sum
Residual(portfolio_delta, explained_sum) == portfolio_delta - explained_sum

\* the warning of a residual above 0.5% of a delta above 0.01
ResidualWarnings(portfolio_delta, residual) ==
    IF /\ Abs(portfolio_delta) > Cent
       /\ Abs(residual) > Abs(portfolio_delta) \div ResidualShare
    THEN <<[kind |-> "large_residual", key |-> <<>>]>> ELSE <<>>

\* contribution_pct_of_portfolio_delta: the quotient as numerator and
\* denominator, <<>> for None
WithShare(driver, portfolio_delta) ==
    [type |-> driver.type, key |-> driver.key,
     contribution_abs |-> driver.contribution_abs,
     mv_A |-> driver.mv_A, mv_B |-> driver.mv_B,
     contribution_pct_of_portfolio_delta |->
         IF Abs(portfolio_delta) > Cent
         THEN <<driver.contribution_abs, portfolio_delta>> ELSE <<>>]

RECURSIVE WithShares(_, _)
WithShares(ds, portfolio_delta) ==
    IF ds = <<>> THEN <<>>
    ELSE <<WithShare(Head(ds), portfolio_delta)>> \o WithShares(Tail(ds), portfolio_delta)

\* one driver put into a list sorted by abs(contribution_abs), descending,
\* behind the earlier drivers of the same magnitude
RECURSIVE InsertDriver(_, _)
InsertDriver(sorted, driver) ==
    IF sorted = <<>> THEN <<driver>>
    ELSE IF Abs(Head(sorted).contribution_abs) >= Abs(driver.contribution_abs)
         THEN <<Head(sorted)>> \o InsertDriver(Tail(sorted), driver)
         ELSE <<driver>> \o sorted

\* drivers.sort(key=lambda d: abs(d['contribution_abs']), reverse=True)
RECURSIVE SortDrivers(_)
SortDrivers(ds) ==
    IF ds = <<>> THEN <<>>
    ELSE InsertDriver(SortDrivers(SubSeq(ds, 1, Len(ds) - 1)), ds[Len(ds)])

\* the report of a call that raised ExplainError
Raised ==
    [error |-> "ExplainError", totals |-> <<>>, drivers |-> <<>>,
     warnings |-> <<>>, stats |-> <<>>]

\* the report of run_explanation for two loaded snapshots, the holding keys
\* and the cash keys iterated in the given orders
Report(snapshot_A, snapshot_B, keys, cash_keys) ==
    LET map_A == HoldingsMap(snapshot_A.holdings)
        map_B == HoldingsMap(snapshot_B.holdings)
        total_A == compute_portfolio_total(snapshot_A)
        total_B == compute_portfolio_total(snapshot_B)
        portfolio_delta == total_B.total - total_A.total
        classified == Classified(keys, map_A, map_B)
        drivers == DriversOf(classified)
                       \o CashDrivers(cash_keys, CashMap(snapshot_A.cash),
                                      CashMap(snapshot_B.cash))
        residual == Residual(portfolio_delta, SumContributions(drivers))
    IN  [error |-> "",
         totals |-> <<[from_total |-> total_A.total, to_total |-> total_B.total,
                       delta_abs |-> portfolio_delta,
                       totals_source |-> total_B.source]>>,
         drivers |->
             SortDrivers(WithShares(
                 Append(drivers,
                        [type |-> "residual_unexplained", key |-> <<>>,
                         contribution_abs |-> residual,
                         mv_A |-> None, mv_B |-> None]),
                 portfolio_delta)),
         warnings |->
             KeyWarnings(snapshot_A.holdings, 0) \o KeyWarnings(snapshot_B.holdings, 0)
             \o total_A.warnings \o total_B.warnings
             \o WarningsOf(classified)
             \o ResidualWarnings(portfolio_delta, residual),
         stats |-> <<[holdings_A |-> Cardinality(DOMAIN map_A),
                      holdings_B |-> Cardinality(DOMAIN map_B),
                      matched |-> Cardinality(DOMAIN map_A \cap DOMAIN map_B),
                      added |-> Cardinality(DOMAIN map_B \ DOMAIN map_A),
                      removed |-> Cardinality(DOMAIN map_A \ DOMAIN map_B),
                      missing_market_values_count |->
                          Cardinality({i \in 1..Len(classified) :
                                          MissingMarketValue(classified[i].driver)})]>>]

\* a holding of a snapshot
Holding(isin, security_id, quantity, market_data) ==
    [account_id |-> "trade_republic_main", isin |-> isin, security_id |-> security_id,
     quantity |-> quantity, market_data |-> market_data]

\* the quantities of the holdings: none, five shares, five shares and half
\* the tolerance, six shares
Quantities == {None, 5 * Scale, 5 * Scale + QuantityTolerance \div 2, 6 * Scale}

\* the holdings that the "to" snapshot is made of
HoldingChoices ==
    {Holding("US0378331005", "US0378331005", q, <<[market_value |-> v * Scale]>>) :
        q \in Quantities, v \in {10, 15}}
    \cup {Holding("US0378331005", "US0378331005", 5 * Scale, <<>>),
          Holding("IE00B4L5Y983", "IE00B4L5Y983", 5 * Scale, <<[market_value |-> 10 * Scale]>>),
          Holding("IE00B4L5Y983", "IE00B4L5Y983", 5 * Scale, <<[market_value |-> None]>>),
          Holding("", "APPLE", 5 * Scale, <<[market_value |-> 10 * Scale]>>),
          Holding("", "", None, <<[market_value |-> 0]>>)}

\* the holdings lists of the "from" snapshot
FromHoldings ==
    {<<>>,
     <<Holding("US0378331005", "US0378331005", 5 * Scale, <<[market_value |-> 10 * Scale]>>)>>,
     <<Holding("US0378331005", "US0378331005", 5 * Scale, <<[market_value |-> 10 * Scale]>>),
       Holding("IE00B4L5Y983", "IE00B4L5Y983", 5 * Scale, <<[market_value |-> 10 * Scale]>>)>>,
     <<Holding("US0378331005", "US0378331005", None, <<>>)>>,
     <<Holding("US0378331005", "US0378331005", 5 * Scale, <<[market_value |-> 10 * Scale]>>),
       Holding("US0378331005", "US0378331005", 6 * Scale, <<[market_value |-> 15 * Scale]>>)>>}

\* most holdings of a "to" snapshot
MaxHoldings == 2

\* a cash item
Cash(amount) ==
    [account_id |-> "trade_republic_main", currency |-> "EUR", amount |-> amount]

\* totals.total_portfolio_value: absent, a quarter of a cent and one unit
\* beside the computed total
TotalModes == {"absent", "near", "off"}

\* a snapshot file
Snapshot(hs, items, mode) ==
    [holdings |-> hs, cash |-> items,
     total |-> IF mode = "absent" THEN <<>>
               ELSE IF mode = "near"
                    THEN <<HoldingsTotal(hs) + CashTotal(items) + Cent \div 4>>
                    ELSE <<HoldingsTotal(hs) + CashTotal(items) + Scale>>]

\* the calls of run_explanation: the two snapshots, whether their files
\* exist, and strict
ExplainCalls ==
    {[snapshot_A |-> Snapshot(ha, ca, "absent"), snapshot_B |-> Snapshot(hb, cb, mode),
      exists_A |-> TRUE, exists_B |-> TRUE, strict |-> strict] :
        ha \in FromHoldings,
        ca \in {<<>>, <<Cash(10 * Scale)>>},
        hb \in UNION {[1..k -> HoldingChoices] : k \in 0..MaxHoldings},
        cb \in {<<>>, <<Cash(10 * Scale + Cent \div 4)>>, <<Cash(20 * Scale)>>},
        mode \in TotalModes,
        strict \in BOOLEAN}
    \cup
    {[snapshot_A |-> Snapshot(<<>>, <<>>, "absent"),
      snapshot_B |-> Snapshot(<<>>, <<>>, "absent"),
      exists_A |-> ea, exists_B |-> eb, strict |-> FALSE] :
        ea \in BOOLEAN, eb \in BOOLEAN}

InitExplain == \E a \in ExplainCalls : StartCall("run_explanation", a)

\* "Load snapshots": ExplainError when a file does not exist
LoadSnapshots ==
    /\ pc = "call"
    /\ entry = "run_explanation"
    /\ IF arg.exists_A /\ arg.exists_B
       THEN pc' = "loaded" /\ ret' = ret
       ELSE pc' = "done" /\ ret' = Raised
    /\ UNCHANGED <<doc, entry, pos, holdings, processed, warnings,
                   isin_candidates, valid_isins, warned_no_date, cash, arg>>
    /\ UNCHANGED <<callVars, snapVars, ingestVars>>

\* run_explanation from "Build holding maps" to "return report"; strict
\* raises ExplainError at the first driver with a market value of 0.0
Explain ==
    /\ pc = "loaded"
    /\ \E keys \in Orders(DOMAIN HoldingsMap(arg.snapshot_A.holdings)
                            \cup DOMAIN HoldingsMap(arg.snapshot_B.holdings)) :
       \E cash_keys \in Orders(DOMAIN CashMap(arg.snapshot_A.cash)
                                 \cup DOMAIN CashMap(arg.snapshot_B.cash)) :
       \E report \in {Report(arg.snapshot_A, arg.snapshot_B, keys, cash_keys)} :
          ret' = IF arg.strict /\ report.stats[1].missing_market_values_count > 0
                 THEN Raised ELSE report
    /\ pc' = "done"
    /\ UNCHANGED <<doc, entry, pos, holdings, processed, warnings,
                   isin_candidates, valid_isins, warned_no_date, cash, arg>>
    /\ UNCHANGED <<callVars, snapVars, ingestVars>>

NextExplain == LoadSnapshots \/ Explain

SpecExplain == InitExplain /\ [][NextExplain]_vars

\* run_explanation has returned a report
Reported == pc = "done" /\ entry = "run_explanation" /\ ret.error = ""

-----------------------------------------------------------------------------
(* C21 *)

\* the residual drivers of the report
ResidualDrivers ==
    {k \in 1..Len(ret.drivers) : ret.drivers[k].type = "residual_unexplained"}

\* C21: in every report of run_explanation the drivers hold exactly one
\* entry of the type residual_unexplained, and the contributions of all
\* drivers, the residual among them, add up to the portfolio delta, to_total
\* minus from_total.
C21_ResidualReconciles ==
    Reported =>
        /\ Cardinality(ResidualDrivers) = 1
        /\ SumContributions(ret.drivers)
              = ret.totals[1].to_total - ret.totals[1].from_total
        /\ ret.totals[1].delta_abs = ret.totals[1].to_total - ret.totals[1].from_total

\* a report with holding drivers and a cash driver whose residual is not zero
C21_Witness ==
    /\ Reported
    /\ Len(ret.drivers) >= 4
    /\ \E k \in 1..Len(ret.drivers) : ret.drivers[k].type = "cash_change"
    /\ \E k \in ResidualDrivers : ret.drivers[k].contribution_abs # 0

-----------------------------------------------------------------------------
(* C22 *)

\* the holding keys of the two snapshots
KeysA == DOMAIN HoldingsMap(arg.snapshot_A.holdings)
KeysB == DOMAIN HoldingsMap(arg.snapshot_B.holdings)

\* the market value of the holding of a key, 0 when it is missing
ValueIn(hs, key) == OrZero(extract_market_value(HoldingsMap(hs)[key]))

\* the quantity of the holding of a key
QuantityIn(hs, key) == HoldingsMap(hs)[key].quantity

\* the types of the drivers of holdings
HoldingTypes == {"new_position", "position_removed", "price_change", "quantity_change"}

\* the drivers of the report that classify_driver made for a key
DriversFor(key) ==
    {k \in 1..Len(ret.drivers) :
        ret.drivers[k].type \in HoldingTypes /\ ret.drivers[k].key = key}

\* the quantities are equal
SameQuantity(quantity_A, quantity_B) == quantity_A = quantity_B

\* the quantities differ by less than 0.0001
WithinTolerance(quantity_A, quantity_B) ==
    Abs(quantity_B - quantity_A) < QuantityTolerance

\* the driver d is the one that the rules give to the key, Unchanged(a, b)
\* telling whether two quantities count as unchanged
DriverByRule(d, key, Unchanged(_, _)) ==
    IF key \notin KeysA
    THEN /\ d.type = "new_position"
         /\ d.contribution_abs = ValueIn(arg.snapshot_B.holdings, key)
    ELSE IF key \notin KeysB
    THEN /\ d.type = "position_removed"
         /\ d.contribution_abs = 0 - ValueIn(arg.snapshot_A.holdings, key)
    ELSE /\ d.contribution_abs = ValueIn(arg.snapshot_B.holdings, key)
                                    - ValueIn(arg.snapshot_A.holdings, key)
         /\ (/\ QuantityIn(arg.snapshot_A.holdings, key) # None
             /\ QuantityIn(arg.snapshot_B.holdings, key) # None) =>
               d.type = IF Unchanged(QuantityIn(arg.snapshot_A.holdings, key),
                                     QuantityIn(arg.snapshot_B.holdings, key))
                        THEN "price_change" ELSE "quantity_change"

\* every key has one driver, the one of the rules, and the stats add up
ClassifiedByRule(Unchanged(_, _)) ==
    Reported =>
        /\ \A key \in KeysA \cup KeysB :
              /\ Cardinality(DriversFor(key)) = 1
              /\ \A k \in DriversFor(key) : DriverByRule(ret.drivers[k], key, Unchanged)
        /\ ret.stats[1].matched + ret.stats[1].added = ret.stats[1].holdings_B
        /\ ret.stats[1].matched + ret.stats[1].removed = ret.stats[1].holdings_A

\* C22 as stated: each holding key has exactly one driver; a key of
\* snapshot B only gives new_position with +mv_B, a key of snapshot A only
\* gives position_removed with -mv_A, a key of both gives price_change when
\* the quantities are equal and quantity_change when they differ, with
\* mv_B - mv_A; matched + added = holdings_B, matched + removed = holdings_A.
C22_EqualQuantities == ClassifiedByRule(SameQuantity)

\* C22 (amended): as above, but a key of both snapshots gives price_change
\* when the quantities differ by less than 0.0001 and quantity_change when
\* they differ by 0.0001 or more.
C22_QuantitiesWithinTolerance == ClassifiedByRule(WithinTolerance)

\* a report with a price_change for quantities that differ by less than the
\* tolerance, and with a quantity_change
C22_Witness ==
    /\ Reported
    /\ \E key \in KeysA \cap KeysB :
          /\ QuantityIn(arg.snapshot_A.holdings, key) # None
          /\ QuantityIn(arg.snapshot_B.holdings, key) # None
          /\ QuantityIn(arg.snapshot_A.holdings, key)
                # QuantityIn(arg.snapshot_B.holdings, key)
          /\ \E k \in DriversFor(key) : ret.drivers[k].type = "price_change"
    /\ \E k \in 1..Len(ret.drivers) : ret.drivers[k].type = "new_position"

====
